---- MODULE Spec2Model ----
(***************************************************************************)
(* FermiToday (src/App.tsx): the event identity extraction, the filters    *)
(* and the fetch-filter-sort cycle of fetchEvents.                         *)
(*                                                                         *)
(* A JavaScript string is a sequence of one-character strings.  `null`     *)
(* stands for null/undefined where a string is expected.  A JavaScript     *)
(* number is a record [nan, v] so that NaN can be told from every integer. *)
(***************************************************************************)
EXTENDS Integers, Sequences, FiniteSets, Bags, TLC

(***************************************************************************)
(* Characters and the String.prototype methods the code calls.             *)
(***************************************************************************)
UpperSeq == <<"A","B","C","D","E","F","G","H","I","J","K","L","M",
              "N","O","P","Q","R","S","T","U","V","W","X","Y","Z">>
LowerSeq == <<"a","b","c","d","e","f","g","h","i","j","k","l","m",
              "n","o","p","q","r","s","t","u","v","w","x","y","z">>
UpperLetters == {UpperSeq[i] : i \in DOMAIN UpperSeq}
LowerLetters == {LowerSeq[i] : i \in DOMAIN LowerSeq}
Digits == {"0","1","2","3","4","5","6","7","8","9"}
\* the characters \s matches, among those the model uses
WhiteSpace == {" ", "\t"}

null == <<"null">>

\* String.prototype.toUpperCase, one character
UpChar(c) ==
  IF c \in LowerLetters
    THEN UpperSeq[CHOOSE i \in DOMAIN LowerSeq : LowerSeq[i] = c]
    ELSE c

toUpperCase(s) == [i \in 1..Len(s) |-> UpChar(s[i])]

\* mutant: the string as it is
trim_Nothing(s) == s

\* String.prototype.trim
trim(s) ==
  LET keep == {i \in 1..Len(s) : s[i] \notin WhiteSpace}
  IN IF keep = {} THEN <<>>
     ELSE LET lo == CHOOSE i \in keep : \A j \in keep : i <= j
              hi == CHOOSE i \in keep : \A j \in keep : i >= j
          IN SubSeq(s, lo, hi)

\* String.prototype.includes
includes(s, sub) ==
  \E p \in 1..(Len(s) + 1) :
    /\ p + Len(sub) - 1 <= Len(s)
    /\ \A k \in 1..Len(sub) : s[p + k - 1] = sub[k]

\* s.replace(/\s+/g, " "): every maximal run of white space becomes one space
RECURSIVE collapseSpaces(_)
collapseSpaces(s) ==
  IF s = <<>> THEN <<>>
  ELSE IF Head(s) \in WhiteSpace
    THEN IF Len(s) > 1 /\ s[2] \in WhiteSpace
           THEN collapseSpaces(Tail(s))
           ELSE <<" ">> \o collapseSpaces(Tail(s))
    ELSE <<Head(s)>> \o collapseSpaces(Tail(s))

\* s.replace(/['"]+$/, ''): the trailing run of quote characters is removed
RECURSIVE stripTrailingQuotes(_)
stripTrailingQuotes(s) ==
  IF s # <<>> /\ s[Len(s)] \in {"'", "\""}
    THEN stripTrailingQuotes(SubSeq(s, 1, Len(s) - 1))
    ELSE s

\* s.split(','): the pieces between commas, empty pieces included
RECURSIVE splitComma(_)
splitComma(s) ==
  LET commas == {i \in 1..Len(s) : s[i] = ","}
  IN IF commas = {} THEN <<s>>
     ELSE LET c == CHOOSE i \in commas : \A j \in commas : i <= j
          IN <<SubSeq(s, 1, c - 1)>> \o splitComma(SubSeq(s, c + 1, Len(s)))

(***************************************************************************)
(* Regular-expression pieces.  Positions are 1-based; Len(s)+1 is the end. *)
(***************************************************************************)
\* the literal lit (upper case) at position p, case-sensitively
LitAt(s, p, lit) ==
  /\ p + Len(lit) - 1 <= Len(s)
  /\ \A k \in 1..Len(lit) : s[p + k - 1] = lit[k]

\* the literal lit (upper case) at position p under the i flag
LitAtCI(s, p, lit) ==
  /\ p + Len(lit) - 1 <= Len(s)
  /\ \A k \in 1..Len(lit) : UpChar(s[p + k - 1]) = lit[k]

\* the position after the maximal run of white space that starts at p
SkipWs(s, p) ==
  CHOOSE q \in p..(Len(s) + 1) :
    /\ \A r \in p..(q - 1) : s[r] \in WhiteSpace
    /\ q = Len(s) + 1 \/ s[q] \notin WhiteSpace

\* the position after the maximal run of characters of cls that starts at p
SkipClass(s, p, cls) ==
  CHOOSE q \in p..(Len(s) + 1) :
    /\ \A r \in p..(q - 1) : s[r] \in cls
    /\ q = Len(s) + 1 \/ s[q] \notin cls

W_CLASSE == <<"C","L","A","S","S","E">>
W_AULA == <<"A","U","L","A">>
W_ASSENTE == <<"A","S","S","E","N","T","E">>
W_PROF == <<"P","R","O","F">>
W_SSA == <<"S","S","A">>

(***************************************************************************)
(* extractClassFromSummary, src/App.tsx:47-50:                             *)
(*   summary.match(/CLASSE\s+([A-Z0-9]+)\s/)                               *)
(* No i flag: the match is case-sensitive.  \s+ and [A-Z0-9]+ are greedy   *)
(* and giving back characters never helps (what follows \s+ must not be    *)
(* white space, what follows the token must be), so at a start position    *)
(* the only candidate is the maximal runs.                                 *)
(***************************************************************************)
ClassTokenChars == UpperLetters \cup Digits

\* the smallest element of a non-empty set of positions
MinOf(S) == CHOOSE x \in S : \A y \in S : x <= y

\* the text of a capture c = <<start, end (exclusive)>>
Captured(s, c) == SubSeq(s, c[1], c[2] - 1)

\* the token from k to m (exclusive), if it is not empty and white space
\* follows it; <<0, 0>> otherwise
ClassToken(s, k, m) ==
  IF m > k /\ m <= Len(s) /\ s[m] \in WhiteSpace THEN <<k, m>> ELSE <<0, 0>>

ClassTokenFrom(s, k) == ClassToken(s, k, SkipClass(s, k, ClassTokenChars))

\* [1] = capture start, [2] = capture end (exclusive); <<0, 0>> when the
\* pattern does not match at position i
ClassMatchAt(s, i) ==
  IF ~(LitAt(s, i, W_CLASSE) /\ i + 6 <= Len(s) /\ s[i + 6] \in WhiteSpace)
    THEN <<0, 0>>
    ELSE ClassTokenFrom(s, SkipWs(s, i + 6))

\* mutant: the rightmost match
ClassMatchResult_Last(summary, starts) ==
  IF starts = {} THEN null
  ELSE Captured(summary,
                ClassMatchAt(summary, CHOOSE x \in starts : \A y \in starts : y <= x))

\* classMatch ? classMatch[1] : null, the match being the leftmost one
ClassMatchResult(summary, starts) ==
  IF starts = {} THEN null
  ELSE Captured(summary, ClassMatchAt(summary, MinOf(starts)))

extractClassFromSummary(summary) ==
  ClassMatchResult(summary,
                   {i \in 1..Len(summary) : ClassMatchAt(summary, i)[1] # 0})

(***************************************************************************)
(* extractProfessorFromSummary, src/App.tsx:52-73.                         *)
(* Both patterns carry the i flag: literals and [A-Z] match either case.   *)
(* An optional piece (F?, \.?, (?:ssa)?) is tried taken first and skipped  *)
(* second; the candidates below are the positions after the optional       *)
(* pieces in the order the backtracking matcher tries them.  \s* before    *)
(* the capture is maximal (the capture starts with a letter).  The capture *)
(* is lazy: the shortest one whose lookahead holds.                        *)
(***************************************************************************)
\* an optional literal at p: taken, then skipped
Opt(s, p, lit) == IF LitAtCI(s, p, lit) THEN <<p + Len(lit), p>> ELSE <<p>>

RECURSIVE OptAll(_, _, _)
OptAll(s, ps, lit) ==
  IF ps = <<>> THEN <<>>
  ELSE Opt(s, Head(ps), lit) \o OptAll(s, Tail(ps), lit)

\* a required literal at each of the positions ps
RECURSIVE ReqAll(_, _, _)
ReqAll(s, ps, lit) ==
  IF ps = <<>> THEN <<>>
  ELSE (IF LitAtCI(s, Head(ps), lit) THEN <<Head(ps) + Len(lit)>> ELSE <<>>)
       \o ReqAll(s, Tail(ps), lit)

AnyLetter == UpperLetters \cup LowerLetters
PluralNameChars == AnyLetter \cup WhiteSpace \cup {",", ".", "'"}
SingularNameChars == AnyLetter \cup WhiteSpace

\* (?=\s*CLASSE|\s*AULA|\s*ASSENTE|\s*$) at position e
PluralLookahead(s, e) ==
  LET q == SkipWs(s, e)
  IN \/ LitAtCI(s, q, W_CLASSE)
     \/ LitAtCI(s, q, W_AULA)
     \/ LitAtCI(s, q, W_ASSENTE)
     \/ q = Len(s) + 1

\* (?=\s*[,\(\)]|\s+ASSENTE|\s+CLASSE|\s*$) at position e
SingularLookahead(s, e) ==
  LET q == SkipWs(s, e)
  IN \/ q <= Len(s) /\ s[q] \in {",", "(", ")"}
     \/ q > e /\ LitAtCI(s, q, W_ASSENTE)
     \/ q > e /\ LitAtCI(s, q, W_CLASSE)
     \/ q = Len(s) + 1

\* the shortest capture from k among the ends, or <<0, 0>>
ShortestCapture(k, ends) == IF ends = {} THEN <<0, 0>> ELSE <<k, MinOf(ends)>>

\* ([A-Z][cls]+?)(?=lookahead) from position k, with the name characters
\* and the lookahead of the plural or of the singular pattern: <<capture
\* start, capture end (exclusive)>>, or <<0, 0>>
CaptureFrom(s, k, plural) ==
  IF ~(k <= Len(s) /\ s[k] \in AnyLetter) THEN <<0, 0>>
  ELSE ShortestCapture(k,
         {e \in (k + 2)..(Len(s) + 1) :
            /\ \A r \in (k + 1)..(e - 1) :
                 s[r] \in (IF plural THEN PluralNameChars ELSE SingularNameChars)
            /\ IF plural THEN PluralLookahead(s, e) ELSE SingularLookahead(s, e)})

\* \s*([A-Z][cls]+?)(?=lookahead) from position c
Capture(s, c, plural) == CaptureFrom(s, SkipWs(s, c), plural)

\* c if it is a capture, else the capture of the first of the candidates
\* cands (in order) that matches
RECURSIVE CaptureOrNext(_, _, _, _)
FirstCapture(s, cands, plural) ==
  IF cands = <<>> THEN <<0, 0>>
  ELSE CaptureOrNext(Capture(s, Head(cands), plural), s, Tail(cands), plural)

CaptureOrNext(c, s, cands, plural) ==
  IF c[1] # 0 THEN c ELSE FirstCapture(s, cands, plural)

\* /PROFF?\.(?:ssa)?\s*([A-Z][A-Z\s,.']+?)(?=...)/i at start position i
PluralMatchAt(s, i) ==
  IF ~LitAtCI(s, i, W_PROF) THEN <<0, 0>>
  ELSE FirstCapture(s,
         OptAll(s, ReqAll(s, Opt(s, i + 4, <<"F">>), <<".">>), W_SSA), TRUE)

\* /PROF\.?(?:ssa)?\.?\s*([A-Z][A-Z\s]+?)(?=...)/gi at start position i
SingularMatchAt(s, i) ==
  IF ~LitAtCI(s, i, W_PROF) THEN <<0, 0>>
  ELSE FirstCapture(s,
         OptAll(s, OptAll(s, Opt(s, i + 4, <<".">>), W_SSA), <<".">>), FALSE)

\* summary.match(plural): the capture of the leftmost match, or null
PluralMatchResult(summary, starts) ==
  IF starts = {} THEN null
  ELSE Captured(summary, PluralMatchAt(summary, MinOf(starts)))

pluralMatch(summary) ==
  PluralMatchResult(summary,
                    {i \in 1..Len(summary) : PluralMatchAt(summary, i)[1] # 0})

\* line 58: name.trim().replace(/['"]+$/, '').trim().replace(/\s+/g, " ")
trimmedNameOf(name) == collapseSpaces(trim(stripTrailingQuotes(trim(name))))

\* line 59
KeepPluralName(trimmedName) ==
  IF Len(trimmedName) > 0 /\ Len(trimmedName) < 50 THEN <<trimmedName>> ELSE <<>>

\* lines 57-62: the names of the plural capture
RECURSIVE pluralNames(_)
pluralNames(pieces) ==
  IF pieces = <<>> THEN <<>>
  ELSE KeepPluralName(trimmedNameOf(Head(pieces))) \o pluralNames(Tail(pieces))

\* [...summary.matchAll(singular)]: the captures of the successive matches,
\* each search starting where the previous match ended
RECURSIVE profMatches(_, _)
\* mutant: the search stops at the first match
MatchThenRest_Once(summary, c) == <<Captured(summary, c)>>

MatchThenRest(summary, c) ==
  <<Captured(summary, c)>> \o profMatches(summary, c[2])

NextSingularMatch(summary, starts) ==
  IF starts = {} THEN <<>>
  ELSE MatchThenRest(summary, SingularMatchAt(summary, MinOf(starts)))

profMatches(summary, from) ==
  NextSingularMatch(summary,
                    {i \in from..Len(summary) : SingularMatchAt(summary, i)[1] # 0})

\* line 68-69
KeepSingularName(profName) == IF Len(profName) > 0 THEN <<profName>> ELSE <<>>

\* lines 66-71: the names of the singular captures
RECURSIVE singularNames(_)
singularNames(matches) ==
  IF matches = <<>> THEN <<>>
  ELSE KeepSingularName(collapseSpaces(trim(Head(matches))))
       \o singularNames(Tail(matches))

\* lines 55-56: the pieces of the plural capture, none without a match
PluralPieces(m) == IF m = null THEN <<>> ELSE splitComma(m)

\* mutant: the singular scan runs after the plural phase in any case
PluralElseSingularFrom_FallThrough(professors, summary, lastIndex) ==
  professors \o singularNames(profMatches(summary, lastIndex + 1))

\* lines 63-72: the plural names when there are some, else the singular
\* ones, matchAll starting at the lastIndex of the regular expression
PluralElseSingularFrom(professors, summary, lastIndex) ==
  IF professors # <<>> THEN professors
  ELSE singularNames(profMatches(summary, lastIndex + 1))

\* the regular expression of line 65 is a literal: each call evaluates it to
\* a new object, whose lastIndex is 0
PluralElseSingular(professors, summary) ==
  PluralElseSingularFrom(professors, summary, 0)

extractProfessorFromSummary(summary) ==
  PluralElseSingular(pluralNames(PluralPieces(pluralMatch(summary))), summary)

(***************************************************************************)
(* JavaScript numbers and Date, as far as fetchEvents uses them.           *)
(* Time is counted in hours since the epoch; a calendar day is the number  *)
(* of the day since the epoch.                                             *)
(***************************************************************************)
Num(n) == [nan |-> FALSE, v |-> n]
NaN == [nan |-> TRUE, v |-> 0]

\* 24 * 60 * 60 * 1000 ms, in hours
HoursPerDay == 24

(***************************************************************************)
(* The values event.start takes (type Event, src/App.tsx:38-45; the value  *)
(* comes from the backend's JSON, so it need not be a string):             *)
(*   "date"      the 10-character string YYYY-MM-DD                        *)
(*   "datetime"  the string YYYY-MM-DDThh:00:00+oo:00                      *)
(*   "badtime"   a string YYYY-MM-DDT<text no Date can parse>              *)
(*   "number"    a number of milliseconds (an instant)                     *)
(*   "undefined" the field is missing                                      *)
(***************************************************************************)
DateString(d) == [kind |-> "date", day |-> d, hour |-> 0, off |-> 0]
DateTimeString(d, h, o) == [kind |-> "datetime", day |-> d, hour |-> h, off |-> o]
BadTimeString(d) == [kind |-> "badtime", day |-> d, hour |-> 0, off |-> 0]
EpochNumber(d, h) == [kind |-> "number", day |-> d, hour |-> h, off |-> 0]
Undefined == [kind |-> "undefined", day |-> 0, hour |-> 0, off |-> 0]

\* typeof v === "string"
IsString(v) == v.kind \in {"date", "datetime", "badtime"}

\* v.length of a string v
StringLength(v) ==
  CASE v.kind = "date" -> 10
    [] v.kind = "datetime" -> 25
    [] v.kind = "badtime" -> 18

\* v.split("T")[0] of a string v: the text before the first T
SplitT0(v) == DateString(v.day)

\* new Date(v).getTime()
DateGetTime(v) ==
  CASE v.kind = "date" -> Num(v.day * HoursPerDay)
    [] v.kind = "datetime" -> Num(v.day * HoursPerDay + v.hour - v.off)
    [] v.kind = "number" -> Num(v.day * HoursPerDay + v.hour)
    [] OTHER -> NaN

\* the value toISOString() raises RangeError with
RangeError == [kind |-> "RangeError", day |-> 0, hour |-> 0, off |-> 0]

\* new Date(v).toISOString().split("T")[0]: the UTC calendar date of the
\* instant; toISOString raises RangeError on an invalid date
ToISODate(v) ==
  LET t == DateGetTime(v)
  IN IF t.nan THEN RangeError ELSE DateString(t.v \div HoursPerDay)

(***************************************************************************)
(* fetchEvents, src/App.tsx:435-484: the date filter (lines 450-457).      *)
(***************************************************************************)
\* lines 451-455: the value compared with dateStr
\* mutant: the day of the instant, whatever the shape of start
eventDate_AlwaysInstant(event) ==
  IF event.isAllDay THEN event.start ELSE ToISODate(event.start)

eventDate(event) ==
  IF event.isAllDay THEN event.start
  ELSE IF IsString(event.start) /\ StringLength(event.start) = 10 THEN event.start
  ELSE IF IsString(event.start) THEN SplitT0(event.start)
  ELSE ToISODate(event.start)

\* res.data.filter(...): the callback runs on every element, so one element
\* whose eventDate raises makes the whole filter raise
\* mutant: the loop starts at the second element
filterByDate_SkipFirst(data, dateStr) ==
  LET Keep(event) == eventDate(event) = dateStr
  IN [raised |-> \E i \in DOMAIN data : eventDate(data[i]) = RangeError,
      list |-> IF data = <<>> THEN <<>> ELSE SelectSeq(Tail(data), Keep)]

filterByDate(data, dateStr) ==
  LET Keep(event) == eventDate(event) = dateStr
  IN [raised |-> \E i \in DOMAIN data : eventDate(data[i]) = RangeError,
      list |-> SelectSeq(data, Keep)]

(***************************************************************************)
(* The inputs the model draws from: summaries, descriptions and queries    *)
(* (each the JavaScript string of the comment above it), the events the    *)
(* backend may send, and the clock.                                        *)
(***************************************************************************)
\* The summaries and descriptions of the events.  An event holds such a
\* string by its name in this table, "null" standing for a missing one;
\* the characters of the string named n are StringTable[n].
StringTable ==
  [
    \* "CLASSE 5A ASSENTE Prof. Rossi"
    SUM_5A_ROSSI |->
      <<"C","L","A","S","S","E"," ","5","A"," ","A","S","S","E","N","T","E"," ","P","r","o","f","."," ","R","o","s","s","i">>,
    \* "CLASSE 5AIIN PROF.ssa Bianchi ASSENTE"
    SUM_5AIIN_BIANCHI |->
      <<"C","L","A","S","S","E"," ","5","A","I","I","N"," ","P","R","O","F",".","s","s","a"," ","B","i","a","n","c","h","i"," ","A","S","S","E","N","T","E">>,
    \* "PROFF. ROSSI, BIANCHI CLASSE 5A"
    SUM_PLURAL |->
      <<"P","R","O","F","F","."," ","R","O","S","S","I",","," ","B","I","A","N","C","H","I"," ","C","L","A","S","S","E"," ","5","A">>,
    \* "VARIAZIONE ORARIO"
    SUM_NO_IDENTITY |->
      <<"V","A","R","I","A","Z","I","O","N","E"," ","O","R","A","R","I","O">>,
    \* "CLASSE 5A PROF ROSSINI (SUPPLENTE)"
    SUM_5A_ROSSINI |->
      <<"C","L","A","S","S","E"," ","5","A"," ","P","R","O","F"," ","R","O","S","S","I","N","I"," ","(","S","U","P","P","L","E","N","T","E",")">>,
    \* "USCITA DIDATTICA"
    SUM_USCITA |->
      <<"U","S","C","I","T","A"," ","D","I","D","A","T","T","I","C","A">>,
    \* "CLASSE 5A USCITA"
    SUM_5A_USCITA |->
      <<"C","L","A","S","S","E"," ","5","A"," ","U","S","C","I","T","A">>,
    \* "PROF. ROSSI CLASSE 5A"
    SUM_ROSSI_5A_END |->
      <<"P","R","O","F","."," ","R","O","S","S","I"," ","C","L","A","S","S","E"," ","5","A">>,
    \* "CLASSE 5A ASSEMBLEA"
    SUM_5A_ASSEMBLEA |->
      <<"C","L","A","S","S","E"," ","5","A"," ","A","S","S","E","M","B","L","E","A">>,
    \* "Prof Rossini in aula 3"
    DESC_PROF_ROSSINI |->
      <<"P","r","o","f"," ","R","o","s","s","i","n","i"," ","i","n"," ","a","u","l","a"," ","3">>,
    \* "sostituisce ROSSI"
    DESC_NO_PROF |->
      <<"s","o","s","t","i","t","u","i","s","c","e"," ","R","O","S","S","I">>,
    \* ""
    EMPTY |->
      <<>>
  ]

\* "5a "
Q_5A ==
  <<"5","a"," ">>
\* " rossi"
Q_ROSSI ==
  <<" ","r","o","s","s","i">>
\* " \t": white space alone
Q_BLANK ==
  <<" ", "\t">>
\* the events res.data is built from.  Day 1 is today, day 2 tomorrow.
Event(id, summary, description, start, isAllDay) ==
  [id |-> id, summary |-> summary, description |-> description,
   start |-> start, isAllDay |-> isAllDay]

EventPool ==
  { Event("e1", "SUM_5A_ROSSI", "EMPTY", DateTimeString(1, 8, 2), FALSE),
    Event("e2", "SUM_5AIIN_BIANCHI", "null", DateTimeString(1, 7, 2), FALSE),
    Event("e3", "SUM_PLURAL", "null", DateString(1), TRUE),
    Event("e4", "SUM_NO_IDENTITY", "DESC_PROF_ROSSINI", DateString(1), FALSE),
    Event("e5", "SUM_5A_ROSSINI", "DESC_NO_PROF", BadTimeString(1), FALSE),
    Event("e6", "SUM_USCITA", "null", Undefined, FALSE),
    Event("e7", "SUM_5A_USCITA", "null", DateTimeString(1, 23, 0 - 5), FALSE),
    Event("e8", "SUM_5A_ROSSI", "null", DateString(2), FALSE),
    Event("e9", "SUM_ROSSI_5A_END", "null", EpochNumber(1, 10), FALSE),
    Event("e10", "SUM_5A_ASSEMBLEA", "null", DateTimeString(1, 0, 0), TRUE) }

\* extractClassFromSummary and extractProfessorFromSummary on the summaries
\* of the pool, computed once (the functions are pure: the value of a call
\* depends on its argument alone)
extractedClassOf == [n \in DOMAIN StringTable |-> extractClassFromSummary(StringTable[n])]
extractedProfsOf == [n \in DOMAIN StringTable |-> extractProfessorFromSummary(StringTable[n])]


(***************************************************************************)
(* filterEventsByClass, src/App.tsx:75-81                                  *)
(***************************************************************************)
\* mutant: the class code matches as a prefix of the extracted class
filterEventsByClass_Prefix(evs, classCode) ==
  LET upperClassCode == trim(toUpperCase(classCode))
      Keep(event) ==
        /\ extractedClassOf[event.summary] # null
        /\ Len(extractedClassOf[event.summary]) >= Len(upperClassCode)
        /\ SubSeq(extractedClassOf[event.summary], 1, Len(upperClassCode))
             = upperClassCode
  IN SelectSeq(evs, Keep)

filterEventsByClass(evs, classCode) ==
  LET upperClassCode == trim(toUpperCase(classCode))
      Keep(event) == extractedClassOf[event.summary] = upperClassCode
  IN SelectSeq(evs, Keep)

(***************************************************************************)
(* filterEventsByProfessor, src/App.tsx:83-97                              *)
(***************************************************************************)
\* line 88: extractedProfs.some((prof) => prof.toUpperCase() === upperProfName)
SomeProfIs(extractedProfs, upperProfName) ==
  \E i \in DOMAIN extractedProfs : toUpperCase(extractedProfs[i]) = upperProfName

\* line 91: event.description ? event.description.toUpperCase() : ""
DescriptionUpper(description) ==
  IF description # "null" /\ StringTable[description] # <<>>
    THEN toUpperCase(StringTable[description]) ELSE <<>>

\* line 92
DescriptionNames(descriptionUpper, upperProfName) ==
  includes(descriptionUpper, W_PROF) /\ includes(descriptionUpper, upperProfName)

\* mutant: the description is not consulted
KeepsProfessor_NoFallback(event, extractedProfs, upperProfName) ==
  Len(extractedProfs) > 0 /\ SomeProfIs(extractedProfs, upperProfName)

\* lines 86-95: the filter's callback
KeepsProfessor(event, extractedProfs, upperProfName) ==
  IF Len(extractedProfs) > 0 /\ SomeProfIs(extractedProfs, upperProfName) THEN TRUE
  ELSE IF DescriptionNames(DescriptionUpper(event.description), upperProfName) THEN TRUE
  ELSE FALSE

filterEventsByProfessor(evs, professorName) ==
  LET Keep(event) ==
        KeepsProfessor(event, extractedProfsOf[event.summary],
                       trim(toUpperCase(professorName)))
  IN SelectSeq(evs, Keep)

(***************************************************************************)
(* fetchEvents: the sort (lines 460-464).                                  *)
(***************************************************************************)
\* lines 461-462: aTime, bTime
SortTime(event) ==
  IF IsString(event.start) /\ StringLength(event.start) = 10
    THEN Num(0) ELSE DateGetTime(event.start)

\* line 463: aTime - bTime
compareFn(a, b) ==
  IF SortTime(a).nan \/ SortTime(b).nan THEN NaN
  ELSE Num(SortTime(a).v - SortTime(b).v)

\* Array.prototype.sort reads the comparator's result through ToNumber and
\* takes NaN for +0 (ECMA-262, CompareArrayElements)
SortCompare(a, b) == IF compareFn(a, b).nan THEN 0 ELSE compareFn(a, b).v

\* SortCompare on the events of the pool, computed once
Compared == [a \in EventPool |-> [b \in EventPool |-> SortCompare(a, b)]]

\* ECMA-262 "consistent comparator" for the elements of list
ConsistentComparator(list) ==
  LET S == {list[i] : i \in DOMAIN list}
  IN /\ \A a \in S : Compared[a][a] = 0
     /\ \A a, b \in S :
          /\ (Compared[a][b] = 0) = (Compared[b][a] = 0)
          /\ (Compared[a][b] < 0) = (Compared[b][a] > 0)
     /\ \A a, b, c \in S :
          /\ Compared[a][b] = 0 /\ Compared[b][c] = 0 => Compared[a][c] = 0
          /\ Compared[a][b] < 0 /\ Compared[b][c] < 0 => Compared[a][c] < 0
          /\ Compared[a][b] > 0 /\ Compared[b][c] > 0 => Compared[a][c] > 0

RECURSIVE StableInsert(_, _)
StableInsert(sorted, x) ==
  IF sorted = <<>> THEN <<x>>
  ELSE IF Compared[Head(sorted)][x] > 0 THEN <<x>> \o sorted
  ELSE <<Head(sorted)>> \o StableInsert(Tail(sorted), x)

\* the one list a stable sort returns under a consistent comparator
RECURSIVE StableSort(_)
StableSort(list) ==
  IF list = <<>> THEN <<>>
  ELSE StableInsert(StableSort(SubSeq(list, 1, Len(list) - 1)), list[Len(list)])

Rearrangements(list) ==
  {[i \in DOMAIN list |-> list[p[i]]] : p \in Permutations(DOMAIN list)}

\* mutant: the events are sorted through a map keyed by time, so that of
\* the events the comparator takes for equal only the first is left
ArraySort_Unique(list) ==
  LET s == StableSort(list)
      keep == {i \in DOMAIN s : \A j \in 1..(i - 1) : Compared[s[j]][s[i]] # 0}
  IN {[k \in 1..Cardinality(keep) |->
         s[CHOOSE i \in keep : Cardinality({j \in keep : j <= i}) = k]]}

\* filteredEvents.sort(compare): the lists the call can leave.  With a
\* consistent comparator the sort is stable and the order is determined;
\* with an inconsistent one (a NaN time next to two different times) the
\* order is implementation-defined: any rearrangement of the elements.
ArraySort(list) ==
  IF ConsistentComparator(list) THEN {StableSort(list)} ELSE Rearrangements(list)

\* the longest res.data the model draws
MaxEvents == 4

EventLists == UNION {[1..n -> EventPool] : n \in 0..MaxEvents}

\* what the user typed and selected when the fetch is issued:
\* <<viewMode, section, professor>>
UserInputs ==
  { <<"section", Q_5A, <<>>>>, <<"section", <<>>, <<>>>>,
    <<"professor", <<>>, Q_ROSSI>>, <<"professor", <<>>, <<>>>>,
    <<"section", Q_BLANK, Q_ROSSI>>, <<"professor", Q_5A, Q_BLANK>>,
    <<"all", <<>>, <<>>>> }

\* the instants new Date() returns: day 1, 09:00 UTC
ClockReadings == {1 * HoursPerDay + 9}

\* the errors axios.get rejects with: [code, status, request]; status 0
\* means no response was received
AxiosErrors ==
  { [code |-> "ECONNABORTED", status |-> 0, request |-> TRUE],
    [code |-> "ERR_BAD_RESPONSE", status |-> 503, request |-> TRUE],
    [code |-> "ERR_BAD_RESPONSE", status |-> 500, request |-> TRUE],
    [code |-> "ERR_BAD_REQUEST", status |-> 404, request |-> TRUE],
    [code |-> "ERR_BAD_REQUEST", status |-> 400, request |-> TRUE],
    [code |-> "ERR_NETWORK", status |-> 0, request |-> TRUE],
    [code |-> "ERR_UNKNOWN", status |-> 0, request |-> FALSE] }

(***************************************************************************)
(* The state: the App component's state that fetchEvents reads and writes  *)
(* (src/App.tsx:138-148), the locals of the fetchEvents call in flight,    *)
(* and where that call stands.                                             *)
(***************************************************************************)
VARIABLES
  section,        \* useState(""), the class text field
  professor,      \* useState(""), the professor text field
  viewMode,       \* "section" | "professor" | "all"
  dateFilter,     \* "today" | "tomorrow"
  events,         \* the list the screen renders
  loading,
  refreshing,
  notification,   \* the message showNotification set last
  pc,             \* "idle": not called; "waiting": at the await of line 449;
                  \* "done": the call returned
  call,           \* the locals sectionToFetch, professorToFetch, dateStr
  resData,        \* res.data of the response, as received
  resDataAfter,   \* the elements of the array res.data when the call is done
  dateFiltered,   \* filteredEvents after line 457
  selected,       \* filteredEvents after line 459
  outcome,        \* how the call ended: "blank" (guards of lines 440-441),
                  \* "stored" (setEvents ran), "raised" (the try block
                  \* raised after the response), "failed" (the request failed)
  \* a call of the extraction functions on its own (src/App.tsx:47-73)
  xpc,            \* "idle": no call in progress; "returned": a call returned
  argWords,       \* the summary passed, as the phrases it is made of
  retClass,       \* what extractClassFromSummary returned
  retProfs,       \* what extractProfessorFromSummary returned
  regexLastIndex, \* lastIndex of the /gi regular expression object of line 65
                  \* when the call was done with it
  calledBefore,   \* history: an earlier call has returned
  \* the fetches of the running application (src/App.tsx:435-519)
  requests,       \* the fetchEvents calls waiting at line 449, oldest first:
                  \* the locals of each
  timers,         \* the setTimeout callbacks not yet run, oldest first
  lastFetch,      \* history: the locals of the call that passed line 449
                  \* last, and how that call ended
  \* the settings and their store (src/App.tsx:148-156, 301-433)
  isDark, notificationsEnabled, expoPushToken,   \* useState, lines 145-156
  storage,        \* AsyncStorage: the value of each key, null when absent
  loader,         \* the loadSettings call of this launch: position, locals
  saves,          \* the saveSettings calls under way: captured values, position
  toggle,         \* the toggleNotifications call: position, local, history
  launches,       \* how many times the application was launched
  lastSet,        \* history: the value the user last gave each preference
  persisted,      \* history: the store as the launch found it, until the
                  \* user changes a setting that is stored
  \* the saved lists of the settings panel (src/App.tsx:140-141, 487-496)
  savedSections, savedProfessors

fetchVars == <<section, professor, viewMode, dateFilter, events, loading,
               refreshing, notification, pc, call, resData, resDataAfter,
               dateFiltered, selected, outcome>>
extractVars == <<xpc, argWords, retClass, retProfs, regexLastIndex, calledBefore>>
uiVars == <<requests, timers, lastFetch>>
settingsVars == <<isDark, notificationsEnabled, expoPushToken, storage, loader,
                  saves, toggle, launches, lastSet, persisted>>
savedVars == <<savedSections, savedProfessors>>
vars == <<fetchVars, extractVars, uiVars, settingsVars, savedVars>>

\* no fetch of the running application is under way
NoFetch ==
  [locals |-> [viewMode |-> "none", sectionToFetch |-> <<>>,
               professorToFetch |-> <<>>, dateStr |-> Undefined],
   outcome |-> "none"]
UiIdle ==
  requests = <<>> /\ timers = <<>> /\ lastFetch = NoFetch

\* nothing is saved: useState([]) of lines 140-141
SavedIdle == savedSections = <<>> /\ savedProfessors = <<>>

\* null and undefined where the other values are strings: getItem of an
\* absent key, the token not obtained, a response without data.error
NoString == "(null)"

\* the keys of the store the model follows, in the order saveSettings
\* writes them (lines 333-342) and loadSettings reads them (lines 306-315)
StorageKeys == <<"darkMode", "notificationsEnabled", "expoPushToken">>

\* the store of a fresh installation
EmptyStorage == [k \in {StorageKeys[i] : i \in DOMAIN StorageKeys} |-> NoString]

\* no call of loadSettings, saveSettings or toggleNotifications is under way
NoLoader == [pc |-> "done", darkMode |-> NoString, notifEnabled |-> NoString, pushToken |-> NoString]
NoError == [code |-> "", response |-> FALSE, error |-> NoString, request |-> FALSE]
NoToggle == [pc |-> "idle", token |-> NoString, contacted |-> FALSE, result |-> "none",
             error |-> NoError]

\* the initial values of useState (lines 138, 145, 150)
DefaultPreferences == [section |-> <<>>, isDark |-> FALSE, notificationsEnabled |-> FALSE]

\* the settings stand still at their initial values
SettingsIdle ==
  /\ isDark = FALSE /\ notificationsEnabled = FALSE /\ expoPushToken = ""
  /\ storage = EmptyStorage
  /\ loader = NoLoader
  /\ saves = {}
  /\ toggle = NoToggle
  /\ launches = 1
  /\ lastSet = DefaultPreferences
  /\ persisted = EmptyStorage

\* no call of the extraction functions was made
ExtractorIdle ==
  /\ xpc = "idle"
  /\ argWords = <<>>
  /\ retClass = null
  /\ retProfs = <<>>
  /\ regexLastIndex = 0
  /\ calledBefore = FALSE

NoNotification == [message |-> "", type |-> "none"]
NoCall == [sectionToFetch |-> <<>>, professorToFetch |-> <<>>, dateStr |-> Undefined]

Init ==
  /\ \E u \in UserInputs : viewMode = u[1] /\ section = u[2] /\ professor = u[3]
  /\ dateFilter \in {"today", "tomorrow"}
  /\ events = <<>>
  /\ loading = FALSE
  /\ refreshing = FALSE
  /\ notification = NoNotification
  /\ pc = "idle"
  /\ call = NoCall
  /\ resData = <<>>
  /\ resDataAfter = <<>>
  /\ dateFiltered = <<>>
  /\ selected = <<>>
  /\ outcome = "none"
  /\ ExtractorIdle
  /\ UiIdle
  /\ SettingsIdle
  /\ SavedIdle

\* showNotification, src/App.tsx:164-171 (the animation aside)
showNotification(message, type) == notification' = [message |-> message, type |-> type]

\* a || b on strings: b when a is undefined or empty
OrElse(a, b) == IF a # null /\ a # <<>> THEN a ELSE b

\* fetchEvents up to the await of line 449 (lines 435-449)
fetchEvents(isRefresh, targetSection, targetProfessor, targetDate, clock) ==
  LET sectionToFetch == toUpperCase(OrElse(targetSection, section))
      professorToFetch == toUpperCase(OrElse(targetProfessor, professor))
      dateToFetch == IF targetDate # "undefined" THEN targetDate ELSE dateFilter
      targetDateObj == IF dateToFetch = "tomorrow" THEN clock + HoursPerDay ELSE clock
      dateStr == ToISODate(EpochNumber(0, targetDateObj))
  IN /\ pc = "idle"
     /\ IF viewMode = "section" /\ trim(sectionToFetch) = <<>>
          THEN /\ showNotification("Inserisci una classe", "info")
               /\ pc' = "done" /\ outcome' = "blank"
               /\ UNCHANGED <<loading, refreshing, call>>
        ELSE IF viewMode = "professor" /\ trim(professorToFetch) = <<>>
          THEN /\ showNotification("Inserisci un professore", "info")
               /\ pc' = "done" /\ outcome' = "blank"
               /\ UNCHANGED <<loading, refreshing, call>>
        ELSE /\ IF isRefresh THEN refreshing' = TRUE /\ UNCHANGED loading
                             ELSE loading' = TRUE /\ UNCHANGED refreshing
             /\ call' = [sectionToFetch |-> sectionToFetch,
                         professorToFetch |-> professorToFetch,
                         dateStr |-> dateStr]
             /\ pc' = "waiting"
             /\ UNCHANGED <<notification, outcome>>
     /\ UNCHANGED <<section, professor, viewMode, dateFilter, events, resData,
                    resDataAfter, dateFiltered, selected>>

\* mutant: a two-way branch, every mode but "professor" filtering by class
selectByMode_TwoWay(mode, evs, sectionToFetch, professorToFetch) ==
  IF mode = "professor" THEN filterEventsByProfessor(evs, professorToFetch)
  ELSE filterEventsByClass(evs, sectionToFetch)

\* line 458-459: the identity filter of the view mode
selectByMode(mode, evs, sectionToFetch, professorToFetch) ==
  IF mode = "section" THEN filterEventsByClass(evs, sectionToFetch)
  ELSE IF mode = "professor" THEN filterEventsByProfessor(evs, professorToFetch)
  ELSE evs

\* mutant: the filter removes the elements from its receiver and returns it
ArrayOfFilter_InPlace(receiver, fresh) == receiver

\* the array object Array.prototype.filter returns: a new one, never the
\* receiver (lines 450, 77, 85)
ArrayOfFilter(receiver, fresh) == fresh

\* the array object filteredEvents refers to at line 460, which the sort
\* rearranges in place
SortedArray(mode) ==
  IF mode = "all" THEN ArrayOfFilter("res.data", "filteredEvents")
  ELSE ArrayOfFilter(ArrayOfFilter("res.data", "filteredEvents"), "filtered")

\* the request resolves with res.data = data: lines 450-469 and the finally
\* block; an exception raised by the date filter goes to the catch block
\* (lines 470-479), where err has no code, response or request
FetchResponse(data) ==
  /\ pc = "waiting"
  /\ resData' = data
  /\ LET f == filterByDate(data, call.dateStr)
     IN IF f.raised
          THEN /\ showNotification("Impossibile caricare le variazioni.", "error")
               /\ outcome' = "raised"
               /\ resDataAfter' = data
               /\ UNCHANGED <<events, dateFiltered, selected>>
          ELSE /\ dateFiltered' = f.list
               /\ selected' = selectByMode(viewMode, f.list, call.sectionToFetch,
                                           call.professorToFetch)
               /\ events' \in ArraySort(selected')
               /\ resDataAfter' = IF SortedArray(viewMode) = "res.data"
                                    THEN events' ELSE data
               /\ outcome' = "stored"
               /\ UNCHANGED notification
  /\ loading' = FALSE
  /\ refreshing' = FALSE
  /\ pc' = "done"
  /\ UNCHANGED <<section, professor, viewMode, dateFilter, call>>

\* lines 472-478: the message of the catch block
errorMessage(err) ==
  IF err.code = "ECONNABORTED"
    THEN "Richiesta scaduta. Controlla la connessione e riprova."
  ELSE IF err.status # 0
    THEN IF err.status = 503 THEN "Server in caricamento. Riprova tra 30 secondi."
         ELSE IF err.status >= 500 THEN "Errore del server. Riprova piu' tardi."
         ELSE IF err.status = 404 THEN "Nessuna variazione trovata."
         ELSE "Impossibile caricare le variazioni."
  ELSE IF err.request
    THEN "Nessuna connessione al server. Controlla la tua connessione internet."
  ELSE "Impossibile caricare le variazioni."

\* the request is rejected with err: the catch and finally blocks (470-483)
FetchError(err) ==
  /\ pc = "waiting"
  /\ showNotification(errorMessage(err), "error")
  /\ outcome' = "failed"
  /\ loading' = FALSE
  /\ refreshing' = FALSE
  /\ pc' = "done"
  /\ UNCHANGED <<section, professor, viewMode, dateFilter, events, call, resData,
                 resDataAfter, dateFiltered, selected>>

Next ==
  \/ /\ pc = "idle"
     /\ \E isRefresh \in BOOLEAN, clock \in ClockReadings :
          fetchEvents(isRefresh, null, null, "undefined", clock)
     /\ UNCHANGED <<extractVars, uiVars, settingsVars, savedVars>>
  \/ /\ pc = "waiting"
     /\ \E data \in EventLists : FetchResponse(data)
     /\ UNCHANGED <<extractVars, uiVars, settingsVars, savedVars>>
  \/ /\ pc = "waiting"
     /\ \E err \in AxiosErrors : FetchError(err)
     /\ UNCHANGED <<extractVars, uiVars, settingsVars, savedVars>>

Spec == Init /\ [][Next]_vars

(***************************************************************************)
(* Properties of the fetch-filter-sort cycle.                              *)
(***************************************************************************)
\* the call returned after setEvents ran
Stored == pc = "done" /\ outcome = "stored"

Range(s) == {s[i] : i \in DOMAIN s}

\* the number of times each event occurs in s
Occurrences(s) == [e \in Range(s) |-> Cardinality({i \in DOMAIN s : s[i] = e})]

\* filterEventsByClass keeps e / filterEventsByProfessor keeps e
matchesClass(e, classCode) == filterEventsByClass(<<e>>, classCode) = <<e>>
matchesProfessor(e, professorName) == filterEventsByProfessor(<<e>>, professorName) = <<e>>

\* the day key of e is the target date and e satisfies the predicate of the mode
ToBeShown(e) ==
  /\ eventDate(e) = call.dateStr
  /\ viewMode = "section" => matchesClass(e, call.sectionToFetch)
  /\ viewMode = "professor" => matchesProfessor(e, call.professorToFetch)

\* C1: the list fetchEvents stores holds exactly the events of res.data whose
\* day key is the target date and that satisfy the predicate of the mode,
\* each as many times as it occurs in res.data, and no other event.
C1_StoredAreExactlyTheMatching ==
  Stored => Occurrences(events) = Occurrences(SelectSeq(resData, ToBeShown))

\* a section-mode result with an event shown twice, next to events dropped by
\* the date filter and by the class filter
C1_Witness ==
  /\ Stored /\ viewMode = "section"
  /\ \E i, j \in DOMAIN events : i # j /\ events[i] = events[j]
  /\ Len(dateFiltered) < Len(resData)
  /\ Len(selected) < Len(dateFiltered)

\* what the specification calls the effective start: 0 for an all-day event
\* (isAllDay set, or a date-only start), the parsed instant for a timed one
IsAllDayEvent(e) == e.isAllDay \/ e.start.kind = "date"
HasInstant(e) == e.start.kind \in {"date", "datetime", "number"}
IsTimed(e) == ~IsAllDayEvent(e) /\ HasInstant(e)
\* a start that is a string no timestamp can be parsed from
IsMalformed(e) == ~IsAllDayEvent(e) /\ e.start.kind = "badtime"
EffectiveStart(e) ==
  IF IsAllDayEvent(e) THEN 0
  ELSE IF e.start.kind = "datetime"
    THEN e.start.day * HoursPerDay + e.start.hour - e.start.off
  ELSE e.start.day * HoursPerDay + e.start.hour

\* C2: the stored list is ascending by effective start, the all-day events
\* before the timed ones, whatever the order of res.data.  (Stated of the
\* events that have an effective start; C7 is about the others.)
C2_StoredIsAscending ==
  Stored =>
    \A i, j \in DOMAIN events :
      i < j /\ (IsAllDayEvent(events[i]) \/ IsTimed(events[i]))
            /\ (IsAllDayEvent(events[j]) \/ IsTimed(events[j]))
        => EffectiveStart(events[i]) <= EffectiveStart(events[j])

\* C3: in section mode the class filter keeps an event if and only if the
\* class extracted from its summary, upper-cased and trimmed, equals the
\* query upper-cased and trimmed; a prefix does not match, and an event with
\* no extractable class matches nothing.
ClassIsExactly(e, query) ==
  /\ extractedClassOf[e.summary] # null
  /\ trim(toUpperCase(extractedClassOf[e.summary])) = trim(toUpperCase(query))

C3_ClassFilterIsExactMatch ==
  Stored /\ viewMode = "section" =>
    LET Exact(e) == ClassIsExactly(e, section)
    IN selected = SelectSeq(dateFiltered, Exact)

\* the class filter met an event of the class, one of a class the query is a
\* prefix of, and one without a class
C3_Witness ==
  /\ Stored /\ viewMode = "section"
  /\ \E e \in Range(dateFiltered) : ClassIsExactly(e, section)
  /\ \E e \in Range(dateFiltered) :
       /\ extractedClassOf[e.summary] # null
       /\ Len(extractedClassOf[e.summary]) > Len(trim(toUpperCase(section)))
       /\ SubSeq(extractedClassOf[e.summary], 1, Len(trim(toUpperCase(section))))
            = trim(toUpperCase(section))
  /\ \E e \in Range(dateFiltered) : extractedClassOf[e.summary] = null
  /\ selected # <<>>

\* C4: in professor mode the filter keeps an event exactly when a name
\* extracted from its summary upper-cases to the target (the query upper-cased
\* and trimmed), or else when its description, upper-cased, contains both
\* PROF and the target; an event without description is kept only by name.
NamedInSummary(e, target) ==
  \E i \in DOMAIN extractedProfsOf[e.summary] :
    toUpperCase(extractedProfsOf[e.summary][i]) = target

NamedInDescription(e, target) ==
  /\ e.description # "null"
  /\ includes(toUpperCase(StringTable[e.description]), W_PROF)
  /\ includes(toUpperCase(StringTable[e.description]), target)

C4_ProfessorFilterRule ==
  Stored /\ viewMode = "professor" =>
    LET target == trim(toUpperCase(professor))
        Rule(e) == NamedInSummary(e, target) \/ NamedInDescription(e, target)
    IN selected = SelectSeq(dateFiltered, Rule)

\* the professor filter kept one event by name and one by description, and
\* dropped an event whose summary names a professor the target is a prefix of
C4_Witness ==
  /\ Stored /\ viewMode = "professor"
  /\ \E e \in Range(selected) : NamedInSummary(e, trim(toUpperCase(professor)))
  /\ \E e \in Range(selected) :
       /\ ~NamedInSummary(e, trim(toUpperCase(professor)))
       /\ NamedInDescription(e, trim(toUpperCase(professor)))
  /\ \E e \in Range(dateFiltered) :
       e \notin Range(selected) /\ extractedProfsOf[e.summary] # <<>>

\* C5 as the specification states it: an event with no extractable class
\* (professor) is never in a section-mode (professor-mode) result, and is in
\* the all-mode result whenever its day key is the target date.
C5_NoIdentityNeverShown ==
  Stored =>
    /\ viewMode = "section" =>
         \A e \in Range(events) : extractedClassOf[e.summary] # null
    /\ viewMode = "professor" =>
         \A e \in Range(events) : extractedProfsOf[e.summary] # <<>>
    /\ viewMode = "all" =>
         \A e \in Range(resData) : eventDate(e) = call.dateStr => e \in Range(events)

\* C5, amended: an event with no extractable class is never in a section-mode
\* result; an event with no extractable professor whose day key is the target
\* date is in the professor-mode result exactly when its description names
\* the target next to PROF (the description fallback); in all mode every
\* event whose day key is the target date is in the result.
C5_NoIdentityShownOnlyByDescription ==
  Stored =>
    /\ viewMode = "section" =>
         \A e \in Range(events) : extractedClassOf[e.summary] # null
    /\ viewMode = "professor" =>
         \A e \in Range(dateFiltered) :
           extractedProfsOf[e.summary] = <<>> =>
             (e \in Range(events)
                <=> NamedInDescription(e, trim(toUpperCase(professor))))
    /\ viewMode = "all" =>
         \A e \in Range(resData) : eventDate(e) = call.dateStr => e \in Range(events)

\* in professor mode an event without class or professor is shown by its
\* description, next to an event without professor that is not shown
C5_Witness ==
  /\ Stored
  /\ \E e \in Range(dateFiltered) :
       /\ extractedClassOf[e.summary] = null
       /\ extractedProfsOf[e.summary] = <<>>
       /\ e \in Range(events)
       /\ viewMode = "professor"
  /\ \E e \in Range(dateFiltered) :
       extractedProfsOf[e.summary] = <<>> /\ e \notin Range(events)

\* the day key as the specification states it: the start itself when
\* isAllDay is set or start is a date-only string, else the calendar date of
\* the instant start denotes
StatedDayKey(e) ==
  IF e.isAllDay \/ e.start.kind = "date" THEN e.start
  ELSE IF HasInstant(e) THEN DateString(EffectiveStart(e) \div HoursPerDay)
  ELSE Undefined

DayKeyByShape(e) ==
  IF e.isAllDay THEN e.start
  ELSE CASE e.start.kind = "date" -> e.start
         [] e.start.kind \in {"datetime", "badtime"} -> DateString(e.start.day)
         [] e.start.kind = "number" -> DateString(EffectiveStart(e) \div HoursPerDay)
         [] OTHER -> Undefined

C7_MalformedStartSortsFirst ==
  Stored =>
    /\ \A e \in Range(selected) : IsMalformed(e) => e \in Range(events)
    /\ \A i, j \in DOMAIN events :
         IsMalformed(events[j]) /\ IsTimed(events[i]) => j < i

\* C8: once the response has arrived, the cycle ends with a stored result,
\* whatever the events of res.data: the filters and the sort never raise.
C8_PipelineNeverRaises == outcome # "raised"

\* C9: events of equal effective start stand in the stored list in the order
\* they have in res.data.
C9_TiesKeepInputOrder ==
  Stored =>
    \A e \in Range(selected) :
      (IsAllDayEvent(e) \/ IsTimed(e)) =>
        LET Tie(x) == /\ IsAllDayEvent(x) \/ IsTimed(x)
                      /\ EffectiveStart(x) = EffectiveStart(e)
        IN SelectSeq(events, Tie) = SelectSeq(selected, Tie)

\* C10: filtering the date-filtered list by the same date again returns the
\* identical list.
C10_FilterByDateIdempotent ==
  Stored =>
    filterByDate(dateFiltered, call.dateStr) = [raised |-> FALSE, list |-> dateFiltered]

\* the date filter dropped some events and kept several
C10_Witness ==
  /\ Stored
  /\ Len(dateFiltered) >= 2
  /\ Len(dateFiltered) < Len(resData)
  /\ \E i, j \in DOMAIN dateFiltered : dateFiltered[i] # dateFiltered[j]

\* the query of the mode as typed, and upper-cased and trimmed
TypedQuery == IF viewMode = "section" THEN section ELSE professor
NormalisedQuery == trim(toUpperCase(TypedQuery))

\* what lines 437-438 and 458-459 select from evs when the text field of the
\* mode holds q
SelectedFor(q, evs) == selectByMode(viewMode, evs, toUpperCase(q), toUpperCase(q))

\* the first half of C11: the events selected for the typed query are those
\* selected for the query upper-cased and trimmed (it holds)
C11_SelectedForNormalisedQuery ==
  Stored /\ viewMode \in {"section", "professor"} =>
    /\ selected = SelectedFor(NormalisedQuery, dateFiltered)
    /\ events \in ArraySort(SelectedFor(NormalisedQuery, dateFiltered))

\* C11: in section and professor mode the result for the typed query is the
\* result for the query upper-cased and trimmed, and the result is ordered by
\* start time, whatever the order of res.data.
C11_CaseInsensitiveAndOrdered ==
  Stored /\ viewMode \in {"section", "professor"} =>
    /\ selected = SelectedFor(NormalisedQuery, dateFiltered)
    /\ events \in ArraySort(SelectedFor(NormalisedQuery, dateFiltered))
    /\ \A i, j \in DOMAIN events :
         i < j /\ IsTimed(events[i]) /\ IsTimed(events[j])
           => EffectiveStart(events[i]) <= EffectiveStart(events[j])

(***************************************************************************)
(* The extraction functions called on their own, on summaries put together *)
(* from phrases as the school's calendar uses them.  A phrase records      *)
(* its text, what it is, and the names it stands for: plural, when it is   *)
(* read by the pattern of line 54 and a terminator or the end follows;     *)
(* singular, when it is read by the pattern of line 65 and a delimiter or  *)
(* the end follows.                                                        *)
(***************************************************************************)
Phrases ==
  [
    \* "PROFF. ROSSI, BIANCHI"
    PL_ROSSI_BIANCHI |->
      [text |-> <<"P","R","O","F","F","."," ","R","O","S","S","I",","," ","B","I","A","N","C","H","I">>,
       kind |-> "dotted",
       plural |-> <<<<"R","O","S","S","I">>, <<"B","I","A","N","C","H","I">>>>,
       singular |-> <<>>],
    \* "PROF.ssa DE  NERI"
    D_NERI |->
      [text |-> <<"P","R","O","F",".","s","s","a"," ","D","E"," "," ","N","E","R","I">>,
       kind |-> "dotted",
       plural |-> <<<<"D","E"," ","N","E","R","I">>>>,
       singular |-> <<<<"D","E"," ","N","E","R","I">>>>],
    \* "PROF ROSSI"
    S_ROSSI |->
      [text |-> <<"P","R","O","F"," ","R","O","S","S","I">>,
       kind |-> "plain",
       plural |-> <<>>,
       singular |-> <<<<"R","O","S","S","I">>>>],
    \* "CLASSE 5A"
    T_CLASSE_5A |->
      [text |-> <<"C","L","A","S","S","E"," ","5","A">>,
       kind |-> "terminator",
       plural |-> <<>>,
       singular |-> <<>>],
    \* "CLASSE  3B"
    T_CLASSE_3B |->
      [text |-> <<"C","L","A","S","S","E"," "," ","3","B">>,
       kind |-> "terminator",
       plural |-> <<>>,
       singular |-> <<>>],
    \* "CLASSE 3b"
    T_CLASSE_LOW |->
      [text |-> <<"C","L","A","S","S","E"," ","3","b">>,
       kind |-> "terminator",
       plural |-> <<>>,
       singular |-> <<>>],
    \* "ASSENTE"
    T_ASSENTE |->
      [text |-> <<"A","S","S","E","N","T","E">>,
       kind |-> "terminator",
       plural |-> <<>>,
       singular |-> <<>>],
    \* "AULA 3"
    T_AULA |->
      [text |-> <<"A","U","L","A"," ","3">>,
       kind |-> "room",
       plural |-> <<>>,
       singular |-> <<>>],
    \* "(SUPPLENTE)"
    P_PAREN |->
      [text |-> <<"(","S","U","P","P","L","E","N","T","E",")">>,
       kind |-> "paren",
       plural |-> <<>>,
       singular |-> <<>>],
    \* ","
    C_COMMA |->
      [text |-> <<",">>,
       kind |-> "comma",
       plural |-> <<>>,
       singular |-> <<>>],
    \* "nessun professore qui"
    X_TEXT |->
      [text |-> <<"n","e","s","s","u","n"," ","p","r","o","f","e","s","s","o","r","e"," ","q","u","i">>,
       kind |-> "text",
       plural |-> <<>>,
       singular |-> <<<<"e","s","s","o","r","e"," ","q","u","i">>>>]
  ]

\* the longest summary, in phrases
MaxPhrases == 3

SummaryWords == UNION {[1..n -> DOMAIN Phrases] : n \in 0..MaxPhrases}

\* the summary: the phrases, one space between two
RECURSIVE TextOf(_)
TextOf(words) ==
  IF words = <<>> THEN <<>>
  ELSE IF Len(words) = 1 THEN Phrases[words[1]].text
  ELSE Phrases[words[1]].text \o <<" ">> \o TextOf(Tail(words))

\* the first position of a search of the /gi regular expression of line 65
\* in a call, and the lastIndex the object is left with: the literal is
\* evaluated in each call, to a new object with lastIndex 0, and matchAll
\* works on a clone of it; left is the lastIndex the previous call's object
\* was left with
RegexOfCall_SharedExec(summary, left) ==
  [lastIndex |-> left,
   leaves |-> LET starts == {i \in (left + 1)..Len(summary) :
                              SingularMatchAt(summary, i)[1] # 0}
              IN IF starts = {} THEN 0
                 ELSE SingularMatchAt(summary, MinOf(starts))[2] - 1]

RegexOfCall(summary, left) == [lastIndex |-> 0, leaves |-> 0]

\* extractClassFromSummary(summary) and extractProfessorFromSummary(summary)
\* are called and return
ExtractCall(words) ==
  /\ xpc = "idle"
  /\ argWords' = words
  /\ retClass' = extractClassFromSummary(TextOf(words))
  /\ retProfs' =
       PluralElseSingularFrom(pluralNames(PluralPieces(pluralMatch(TextOf(words)))),
                              TextOf(words),
                              RegexOfCall(TextOf(words), regexLastIndex).lastIndex)
  /\ regexLastIndex' = RegexOfCall(TextOf(words), regexLastIndex).leaves
  /\ xpc' = "returned"
  /\ UNCHANGED calledBefore

\* the caller drops the results; what the next call finds is the state of
\* the regular expression alone
ExtractReturn ==
  /\ xpc = "returned"
  /\ xpc' = "idle"
  /\ argWords' = <<>>
  /\ retClass' = null
  /\ retProfs' = <<>>
  /\ calledBefore' = TRUE
  /\ UNCHANGED regexLastIndex

\* the App component as constructed (lines 138-149), no fetch issued
AppStart ==
  /\ section = <<>>
  /\ professor = <<>>
  /\ viewMode = "section"
  /\ dateFilter = "today"
  /\ events = <<>>
  /\ loading = FALSE
  /\ refreshing = FALSE
  /\ notification = NoNotification
  /\ pc = "idle"
  /\ call = NoCall
  /\ resData = <<>>
  /\ resDataAfter = <<>>
  /\ dateFiltered = <<>>
  /\ selected = <<>>
  /\ outcome = "none"

ExtractInit == AppStart /\ ExtractorIdle /\ UiIdle /\ SettingsIdle /\ SavedIdle

ExtractNext ==
  \/ /\ xpc = "idle"
     /\ \E words \in SummaryWords : ExtractCall(words)
     /\ UNCHANGED <<fetchVars, uiVars, settingsVars, savedVars>>
  \/ ExtractReturn /\ UNCHANGED <<fetchVars, uiVars, settingsVars, savedVars>>

ExtractSpec == ExtractInit /\ [][ExtractNext]_vars

(***************************************************************************)
(* Properties of the extraction functions.                                 *)
(***************************************************************************)
\* a call of the extraction functions has returned
Returned == xpc = "returned"

KindsOf(words) == [i \in DOMAIN words |-> Phrases[words[i]].kind]

\* a professor marker as the calendar writes it: PROF, PROF., PROFF., PROF.ssa
HasMarker(words) == \E i \in DOMAIN words : KindsOf(words)[i] \in {"dotted", "plain"}

\* the letters p, r, o, f in a row, in either case
HasProfLetters(words) == includes(toUpperCase(TextOf(words)), W_PROF)

\* what holds of the code: no name without the letters PROF, in either case
C12_NoProfLettersNoName ==
  Returned /\ ~HasProfLetters(argWords) => retProfs = <<>>

\* C12: extractProfessors returns the empty sequence for every summary
\* without a professor marker, ordinary lower-case text such as "nessun
\* professore qui" included.
C12_NoMarkerNoName ==
  Returned /\ ~HasMarker(argWords) => retProfs = <<>>

\* the phrases with a dotted marker, and the first of them
DottedAt(words) == {i \in DOMAIN words : KindsOf(words)[i] = "dotted"}

\* CLASSE, AULA, ASSENTE or the end of the summary follows phrase i
PluralTerminated(words, i) ==
  i = Len(words) \/ KindsOf(words)[i + 1] \in {"terminator", "room"}

\* the first dotted marker of the summary has a run of names that ends
\* before CLASSE, AULA, ASSENTE or the end
HasPluralRun(words) ==
  DottedAt(words) # {} /\ PluralTerminated(words, MinOf(DottedAt(words)))

\* C13: when a dotted marker is followed by a comma-separated run of names
\* that ends before CLASSE, AULA, ASSENTE or the end of the summary, the
\* result is exactly the names of the first such run, in order, trimmed and
\* with white space collapsed, and nothing a later marker introduces.
C13_PluralRunIsTheResult ==
  Returned /\ HasPluralRun(argWords) =>
    retProfs = Phrases[argWords[MinOf(DottedAt(argWords))]].plural

\* the call returned the two names of a plural run that a terminator and
\* then a singular marker with a name follow
C13_Witness ==
  /\ Returned
  /\ Len(argWords) = MaxPhrases
  /\ argWords[1] = "PL_ROSSI_BIANCHI"
  /\ KindsOf(argWords)[2] = "terminator"
  /\ argWords[3] = "S_ROSSI"
  /\ Len(retProfs) = 2

\* the plural phase of lines 54-64 yields no name
PluralYieldsNone(words) ==
  pluralNames(PluralPieces(pluralMatch(TextOf(words)))) = <<>>

\* a comma, a parenthesis, ASSENTE, CLASSE or the end follows each phrase
\* that the singular pattern can start a match in
SingularDelimited(words) ==
  \A i \in DOMAIN words :
    KindsOf(words)[i] \in {"dotted", "plain", "text"} =>
      \/ i = Len(words)
      \/ KindsOf(words)[i + 1] \in {"terminator", "paren", "comma"}

\* the names the phrases stand for under the singular pattern, in order
RECURSIVE SingularNamesOf(_)
SingularNamesOf(words) ==
  IF words = <<>> THEN <<>>
  ELSE Phrases[Head(words)].singular \o SingularNamesOf(Tail(words))

IsClassOccurrence(s, i, a, b) ==
  /\ a > i + 6 /\ b > a /\ b <= Len(s)
  /\ s[b] \in WhiteSpace
  /\ LitAt(s, i, W_CLASSE)
  /\ \A r \in (i + 6)..(a - 1) : s[r] \in WhiteSpace
  /\ \A r \in a..(b - 1) : s[r] \in ClassTokenChars

\* <<i, token>> for each occurrence in s that starts at i
ClassOccurrencesAt(s, i) ==
  {<<i, SubSeq(s, o[1], o[2] - 1)>> :
     o \in {x \in ((i + 7)..Len(s)) \X ((i + 8)..Len(s)) :
              IsClassOccurrence(s, i, x[1], x[2])}}

ClassOccurrences(s) ==
  UNION {ClassOccurrencesAt(s, i) : i \in {j \in 1..Len(s) : LitAt(s, j, W_CLASSE)}}

FirstClassOccurrence(occ) ==
  IF occ = {} THEN null
  ELSE (CHOOSE o \in occ : \A p \in occ : o[1] <= p[1])[2]

\* C15: extractClass returns the token of the first occurrence of CLASSE,
\* white space, a token of upper-case letters and digits, white space, as it
\* stands in the summary, and absent when there is no occurrence; a later
\* occurrence does not change the result.
C15_FirstClassOccurrence ==
  Returned => retClass = FirstClassOccurrence(ClassOccurrences(TextOf(argWords)))

\* the summary has two occurrences with different tokens and the call
\* returned the first token
C15_Witness ==
  /\ Returned
  /\ argWords = <<"T_CLASSE_5A", "T_CLASSE_3B", "T_ASSENTE">>
  /\ retClass = <<"5", "A">>

MaxInFlight == 2
\* the most setTimeout callbacks pending at once
MaxTimers == 1

\* the state of the component as one value: a handler is a composition of
\* changes of it
AppState ==
  [section |-> section, professor |-> professor, viewMode |-> viewMode,
   dateFilter |-> dateFilter, events |-> events, loading |-> loading,
   refreshing |-> refreshing, notification |-> notification,
   requests |-> requests, timers |-> timers, lastFetch |-> lastFetch]

\* the component's state becomes s
Becomes(s) ==
  /\ section' = s.section
  /\ professor' = s.professor
  /\ viewMode' = s.viewMode
  /\ dateFilter' = s.dateFilter
  /\ events' = s.events
  /\ loading' = s.loading
  /\ refreshing' = s.refreshing
  /\ notification' = s.notification
  /\ requests' = s.requests
  /\ timers' = s.timers
  /\ lastFetch' = s.lastFetch

\* the values of the dependencies of useCallback (line 484) that the
\* fetchEvents of a render in state s works on
RenderOf(s) ==
  [section |-> s.section, professor |-> s.professor, viewMode |-> s.viewMode,
   dateFilter |-> s.dateFilter]

\* the render at mount, lines 138-149: the listener of line 294 keeps the
\* handleNotificationResponse, and so the fetchEvents, of this render
FirstRender ==
  [section |-> <<>>, professor |-> <<>>, viewMode |-> "section",
   dateFilter |-> "today"]

\* the instant new Date() returns at line 444
Now == CHOOSE clock \in ClockReadings : TRUE

\* the locals of a call that the rest of the call reads: viewMode and
\* dateStr, sectionToFetch in section mode alone (lines 448, 458) and
\* professorToFetch in professor mode alone (line 459); a local that is
\* never read again is kept as the empty string
Locals(mode, sectionToFetch, professorToFetch, dateStr) ==
  [viewMode |-> mode,
   sectionToFetch |-> IF mode = "section" THEN sectionToFetch ELSE <<>>,
   professorToFetch |-> IF mode = "professor" THEN professorToFetch ELSE <<>>,
   dateStr |-> dateStr]

\* fetchEvents of the given render up to the await of line 449, in state s
\* (lines 435-449): the state after it
fetchEventsOf(render, s, isRefresh, targetSection, targetProfessor, targetDate) ==
  LET sectionToFetch == toUpperCase(OrElse(targetSection, render.section))
      professorToFetch == toUpperCase(OrElse(targetProfessor, render.professor))
      dateToFetch == IF targetDate # "undefined" THEN targetDate ELSE render.dateFilter
      targetDateObj == IF dateToFetch = "tomorrow" THEN Now + HoursPerDay ELSE Now
      dateStr == ToISODate(EpochNumber(0, targetDateObj))
  IN IF render.viewMode = "section" /\ trim(sectionToFetch) = <<>>
       THEN [s EXCEPT !.notification =
                        [message |-> "Inserisci una classe", type |-> "info"]]
     ELSE IF render.viewMode = "professor" /\ trim(professorToFetch) = <<>>
       THEN [s EXCEPT !.notification =
                        [message |-> "Inserisci un professore", type |-> "info"]]
     ELSE [s EXCEPT !.refreshing = IF isRefresh THEN TRUE ELSE @,
                    !.loading = IF isRefresh THEN @ ELSE TRUE,
                    !.requests = Append(@, Locals(render.viewMode, sectionToFetch,
                                                  professorToFetch, dateStr)),
                    !.lastFetch = [locals |-> Locals(render.viewMode, sectionToFetch,
                                                     professorToFetch, dateStr),
                                   outcome |-> "pending"]]

\* setEvents([]) of lines 513 and 516: the list shown is no longer the
\* result of a fetch
Cleared(s) == [s EXCEPT !.events = <<>>, !.lastFetch = NoFetch]

\* the body of the effect of lines 510-519, run by the render in state s
viewEffect(s) ==
  IF s.viewMode = "all"
    THEN fetchEventsOf(RenderOf(s), s, FALSE, null, null, "undefined")
  ELSE IF s.viewMode = "section"
    THEN IF trim(s.section) = <<>> THEN Cleared(s)
         ELSE fetchEventsOf(RenderOf(s), s, FALSE, null, null, "undefined")
  ELSE IF trim(s.professor) = <<>> THEN Cleared(s)
       ELSE fetchEventsOf(RenderOf(s), s, FALSE, null, null, "undefined")

\* the render that follows a handler which took the state from old to s:
\* the effect runs when one of its dependencies [dateFilter, viewMode]
\* changed (line 519)
Rendered(old, s) ==
  IF s.dateFilter # old.dateFilter \/ s.viewMode # old.viewMode
    THEN viewEffect(s) ELSE s

\* the texts the user types in the two inputs
TypedSections == {<<>>, trim(toUpperCase(Q_5A))}
TypedProfessors == {<<>>, trim(toUpperCase(Q_ROSSI))}
\* the saved sections and professors of the quick buttons (lines 487-496
\* store them trimmed and in upper case); notifications name the same
QuickSections == {trim(toUpperCase(Q_5A))}
QuickProfessors == {trim(toUpperCase(Q_ROSSI))}
\* what the backend answers a request with
PoolEvent(id) == CHOOSE ev \in EventPool : ev.id = id
BackendAnswers ==
  {<<PoolEvent("e2"), PoolEvent("e1"), PoolEvent("e8")>>, <<PoolEvent("e6")>>}
BackendErrors ==
  {err \in AxiosErrors : err.status = 503 \/ err.code \in {"ECONNABORTED", "ERR_NETWORK"}}

\* it can start one more call, and set one more timer
CanFetch == Len(requests) < MaxInFlight
CanSetTimer == Len(timers) < MaxTimers

\* onChangeText of the inputs (lines 570, 583)
TypeSection(text) ==
  /\ viewMode = "section"
  /\ Becomes([AppState EXCEPT !.section = text])
TypeProfessor(text) ==
  /\ viewMode = "professor"
  /\ Becomes([AppState EXCEPT !.professor = text])

\* the search buttons (lines 572, 585), shown and enabled whatever loading is
PressSearch ==
  /\ viewMode \in {"section", "professor"}
  /\ CanFetch
  /\ Becomes(fetchEventsOf(RenderOf(AppState), AppState, FALSE, null, null,
                           "undefined"))

\* onRefresh (lines 486, 650): the list is shown when loading is false and
\* events is not empty (lines 628-651)
PullToRefresh ==
  /\ ~loading /\ events # <<>>
  /\ CanFetch
  /\ Becomes(fetchEventsOf(RenderOf(AppState), AppState, TRUE, null, null,
                           "undefined"))

\* the view mode buttons (line 557) and the effect that follows
PressViewMode(mode) ==
  /\ CanFetch
  /\ Becomes(Rendered(AppState, [AppState EXCEPT !.viewMode = mode]))

\* the date buttons (line 618) and the effect that follows
PressDateFilter(filter) ==
  /\ CanFetch
  /\ Becomes(Rendered(AppState, [AppState EXCEPT !.dateFilter = filter]))

\* a pending callback: the arguments it passes and the render whose
\* fetchEvents it calls.  Every callback passes a date, and a callback of
\* the quick buttons passes the identity its render's view mode reads, so
\* of such a render the call reads viewMode alone; the callbacks of the
\* notification handler call the first render, whose texts are empty
Timer(render, targetSection, targetProfessor, targetDate) ==
  [render |-> [section |-> IF render.viewMode = "section" /\ targetSection = null
                             THEN render.section ELSE <<>>,
               professor |-> IF render.viewMode = "professor" /\ targetProfessor = null
                               THEN render.professor ELSE <<>>,
               viewMode |-> render.viewMode,
               dateFilter |-> targetDate],
   targetSection |-> targetSection,
   targetProfessor |-> targetProfessor, targetDate |-> targetDate]

\* handleQuickSectionSelect (lines 497-502)
handleQuickSectionSelect(sec) ==
  /\ viewMode = "section"
  /\ CanFetch /\ CanSetTimer
  /\ Becomes(Rendered(AppState,
       [AppState EXCEPT !.section = sec, !.viewMode = "section",
          !.timers = Append(@, Timer(RenderOf(AppState), sec, null, dateFilter))]))

\* handleQuickProfessorSelect (lines 503-508)
handleQuickProfessorSelect(prof) ==
  /\ viewMode = "professor"
  /\ CanFetch /\ CanSetTimer
  /\ Becomes(Rendered(AppState,
       [AppState EXCEPT !.professor = prof, !.viewMode = "professor",
          !.timers = Append(@, Timer(RenderOf(AppState), null, prof, dateFilter))]))

\* handleNotificationResponse (lines 273-289) for a digest or realtime
\* notification naming a section or else a professor
handleNotificationResponse(data) ==
  /\ CanFetch /\ CanSetTimer
  /\ IF data.section # null
       THEN Becomes(Rendered(AppState,
              [AppState EXCEPT !.section = data.section, !.viewMode = "section",
                 !.dateFilter = "today",
                 !.timers = Append(@, Timer(FirstRender, data.section, null, "today"))]))
       ELSE Becomes(Rendered(AppState,
              [AppState EXCEPT !.professor = data.professor, !.viewMode = "professor",
                 !.dateFilter = "today",
                 !.timers = Append(@, Timer(FirstRender, null, data.professor, "today"))]))

NotificationData ==
  {[section |-> sec, professor |-> null] : sec \in QuickSections}
    \cup {[section |-> null, professor |-> prof] : prof \in QuickProfessors}

\* the oldest pending callback runs (lines 281, 286, 501, 507)
TimerFires ==
  /\ timers # <<>>
  /\ CanFetch
  /\ LET t == Head(timers)
     IN Becomes(fetchEventsOf(t.render, [AppState EXCEPT !.timers = Tail(@)],
                              FALSE, t.targetSection, t.targetProfessor,
                              t.targetDate))

\* the sequence without its i-th element
Without(seq, i) == [k \in 1..(Len(seq) - 1) |-> IF k < i THEN seq[k] ELSE seq[k + 1]]

\* the finally block with setRefreshing(false) left out
Ended_LoadingOnly(i, how) ==
  [AppState EXCEPT !.loading = FALSE,
                   !.requests = Without(@, i),
                   !.lastFetch = IF i = Len(requests) /\ @.outcome = "pending"
                                   THEN [@ EXCEPT !.outcome = how] ELSE @]

\* the i-th waiting call ends in the given way: the finally block (lines
\* 480-483).  The call that passed line 449 last is, while it waits, the
\* last of requests
Ended(i, how) ==
  [AppState EXCEPT !.loading = FALSE, !.refreshing = FALSE,
                   !.requests = Without(@, i),
                   !.lastFetch = IF i = Len(requests) /\ @.outcome = "pending"
                                   THEN [@ EXCEPT !.outcome = how] ELSE @]

\* lines 450-464 on the locals r of a call and res.data = data: whether the
\* date filter raised, and else the arrays the sort can leave
Pipeline(r, data) ==
  LET f == filterByDate(data, r.dateStr)
  IN IF f.raised THEN [raised |-> TRUE, sorted |-> {}]
     ELSE [raised |-> FALSE,
           sorted |-> ArraySort(selectByMode(r.viewMode, f.list, r.sectionToFetch,
                                             r.professorToFetch))]

\* the locals the calls of the model can have, and Pipeline on each of them,
\* computed once
LocalsOfModel ==
  {Locals(mode, toUpperCase(sec), toUpperCase(prof), ToISODate(EpochNumber(0, at))) :
     mode \in {"section", "professor", "all"},
     sec \in TypedSections \cup QuickSections,
     prof \in TypedProfessors \cup QuickProfessors,
     at \in {Now, Now + HoursPerDay}}
PipelineOf == [r \in LocalsOfModel, data \in BackendAnswers |-> Pipeline(r, data)]

\* the i-th waiting call resumes with res.data = data: lines 450-469 and the
\* finally block, on the locals of that call; an exception raised by the
\* date filter goes to the catch block (lines 470-479)
RequestResolves(i, data) ==
  /\ i \in DOMAIN requests
  /\ IF PipelineOf[requests[i], data].raised
       THEN Becomes([Ended(i, "raised") EXCEPT !.notification =
               [message |-> "Impossibile caricare le variazioni.",
                type |-> "error"]])
       ELSE \E sorted \in PipelineOf[requests[i], data].sorted :
              Becomes([Ended(i, "stored") EXCEPT !.events = sorted])

\* the catch block with a setEvents([]) added
RequestFails_ClearsEvents(i, err) ==
  /\ i \in DOMAIN requests
  /\ Becomes([Ended(i, "failed") EXCEPT
                !.events = <<>>,
                !.notification = [message |-> errorMessage(err), type |-> "error"]])

\* the i-th waiting call resumes with the rejection err: the catch and
\* finally blocks (lines 470-483)
RequestFails(i, err) ==
  /\ i \in DOMAIN requests
  /\ Becomes([Ended(i, "failed") EXCEPT
                !.notification = [message |-> errorMessage(err), type |-> "error"]])

\* the rest of the model stands still
UiOnly == UNCHANGED <<pc, call, resData, resDataAfter, dateFiltered, selected,
                      outcome, extractVars, settingsVars, savedVars>>

\* the application after mount (lines 138-149): the effect of line 510 found
\* a blank section and fetched nothing
UiInit ==
  /\ section = <<>> /\ professor = <<>>
  /\ viewMode = "section" /\ dateFilter = "today"
  /\ events = <<>> /\ loading = FALSE /\ refreshing = FALSE
  /\ notification = NoNotification
  /\ pc = "idle" /\ call = NoCall /\ resData = <<>> /\ resDataAfter = <<>>
  /\ dateFiltered = <<>> /\ selected = <<>> /\ outcome = "none"
  /\ ExtractorIdle
  /\ UiIdle
  /\ SettingsIdle
  /\ SavedIdle

UiNext ==
  \/ (\E text \in TypedSections : TypeSection(text)) /\ UiOnly
  \/ (\E text \in TypedProfessors : TypeProfessor(text)) /\ UiOnly
  \/ PressSearch /\ UiOnly
  \/ PullToRefresh /\ UiOnly
  \/ (\E mode \in {"section", "professor", "all"} : PressViewMode(mode)) /\ UiOnly
  \/ (\E filter \in {"today", "tomorrow"} : PressDateFilter(filter)) /\ UiOnly
  \/ (\E sec \in QuickSections : handleQuickSectionSelect(sec)) /\ UiOnly
  \/ (\E prof \in QuickProfessors : handleQuickProfessorSelect(prof)) /\ UiOnly
  \/ (\E data \in NotificationData : handleNotificationResponse(data)) /\ UiOnly
  \/ TimerFires /\ UiOnly
  \/ (\E i \in 1..MaxInFlight, data \in BackendAnswers : RequestResolves(i, data)) /\ UiOnly
  \/ (\E i \in 1..MaxInFlight, err \in BackendErrors : RequestFails(i, err)) /\ UiOnly

UiSpec == UiInit /\ [][UiNext]_vars

\* C16: the application serialises its fetches: at most one call of
\* fetchEvents is waiting for its response at any time.
C16_AtMostOneFetchInFlight == Len(requests) <= 1

(***************************************************************************)
(* The settings of the application and their store.  loadSettings,         *)
(* saveSettings and toggleNotifications are asynchronous: each runs up to  *)
(* its next await in one step, and the steps of the calls under way        *)
(* interleave.  The store is followed for the keys darkMode,               *)
(* notificationsEnabled and expoPushToken.                                 *)
(***************************************************************************)
\* the most launches of the application in a behaviour
MaxLaunches == 2
\* the most saveSettings calls under way at once
MaxSaves == 2

\* the token getExpoPushTokenAsync returns (line 203)
PushToken == "ExponentPushToken[1]"

\* JSON.stringify of a boolean (lines 333, 336) and JSON.parse of what it
\* wrote (lines 316, 319)
JSONstringify(b) == IF b THEN "true" ELSE "false"
JSONparse(text) == text = "true"

\* the saveSettings of a render with the given values (line 301), before its
\* first await
SaveOf(dark, enabled, token) ==
  [isDark |-> dark, notificationsEnabled |-> enabled, expoPushToken |-> token,
   pc |-> "darkMode"]

\* the effect of line 301 after a render that changed the settings to the
\* given values: saveSettings starts when isDark or notificationsEnabled,
\* which are among its dependencies, changed; expoPushToken is not among them
saveEffect(dark, enabled, token) ==
  saves' = IF dark # isDark \/ enabled # notificationsEnabled
             THEN saves \cup {SaveOf(dark, enabled, token)}
           ELSE saves

\* one more saveSettings can start
CanSave == Cardinality(saves) < MaxSaves

\* the fetch cycle and the extraction stand still
SettingsOnly ==
  UNCHANGED <<professor, viewMode, dateFilter, events, loading, refreshing, pc,
              call, resData, resDataAfter, dateFiltered, selected, outcome,
              extractVars, uiVars, savedVars>>

\* the next await of saveSettings s returns: the setItem of its position
\* was done (lines 333-342); the token is written only when it is not empty
SaveStep(s) ==
  /\ s \in saves
  /\ storage' = [storage EXCEPT ![s.pc] =
                   IF s.pc = "darkMode" THEN JSONstringify(s.isDark)
                   ELSE IF s.pc = "notificationsEnabled"
                     THEN JSONstringify(s.notificationsEnabled)
                   ELSE s.expoPushToken]
  /\ saves' = IF s.pc = "darkMode"
                THEN (saves \ {s}) \cup {[s EXCEPT !.pc = "notificationsEnabled"]}
              ELSE IF s.pc = "notificationsEnabled" /\ s.expoPushToken # ""
                THEN (saves \ {s}) \cup {[s EXCEPT !.pc = "expoPushToken"]}
              ELSE saves \ {s}
  /\ UNCHANGED <<isDark, notificationsEnabled, expoPushToken, loader, toggle,
                 launches, lastSet, persisted, section, notification>>

\* the next await of loadSettings returns: the getItem of its position was
\* done (lines 306-315)
LoadStep ==
  /\ loader.pc \in {"darkMode", "notificationsEnabled", "expoPushToken"}
  /\ loader' = IF loader.pc = "darkMode"
                 THEN [loader EXCEPT !.darkMode = storage["darkMode"],
                                     !.pc = "notificationsEnabled"]
               ELSE IF loader.pc = "notificationsEnabled"
                 THEN [loader EXCEPT !.notifEnabled = storage["notificationsEnabled"],
                                     !.pc = "expoPushToken"]
               ELSE [loader EXCEPT !.pushToken = storage["expoPushToken"],
                                   !.pc = "apply"]
  /\ UNCHANGED <<isDark, notificationsEnabled, expoPushToken, storage, saves,
                 toggle, launches, lastSet, persisted, section, notification>>

\* loadSettings resumes after its last await: lines 316-325, and the effect
\* of line 301 in the render that follows
LoadApply ==
  /\ loader.pc = "apply"
  /\ CanSave
  /\ isDark' = IF loader.darkMode # NoString THEN JSONparse(loader.darkMode) ELSE isDark
  /\ notificationsEnabled' = IF loader.notifEnabled # NoString
                               THEN JSONparse(loader.notifEnabled)
                             ELSE notificationsEnabled
  /\ expoPushToken' = IF loader.pushToken # NoString THEN loader.pushToken
                      ELSE expoPushToken
  /\ saveEffect(isDark', notificationsEnabled', expoPushToken')
  /\ loader' = [loader EXCEPT !.pc = "done"]
  /\ UNCHANGED <<storage, toggle, launches, lastSet, persisted, section,
                 notification>>

\* the user acts once the settings are loaded (loadSettings takes a few
\* reads of the store; the switches are in the settings dialog)
Loaded == loader.pc = "done"

\* the theme switch (line 674)
SetIsDark(value) ==
  /\ Loaded
  /\ value # isDark
  /\ CanSave
  /\ isDark' = value
  /\ saveEffect(value, notificationsEnabled, expoPushToken)
  /\ lastSet' = [lastSet EXCEPT !.isDark = value]
  /\ persisted' = EmptyStorage
  /\ UNCHANGED <<notificationsEnabled, expoPushToken, storage, loader, toggle,
                 launches, section, notification>>

\* the user types the section to search (line 570): no effect saves it
SetSection(text) ==
  /\ Loaded
  /\ section' = text
  /\ lastSet' = [lastSet EXCEPT !.section = text]
  /\ UNCHANGED persisted
  /\ UNCHANGED <<isDark, notificationsEnabled, expoPushToken, storage, loader,
                 saves, toggle, launches, notification>>

\* no call of loadSettings, saveSettings or toggleNotifications is under way
Settled == loader.pc = "done" /\ saves = {} /\ toggle.pc = "idle"

\* the application, with no call under way, is closed and launched again:
\* the state is that of useState (lines 138-156), the store stays, and the
\* effects of lines 291 and 301 start loadSettings and saveSettings
Relaunch ==
  /\ launches < MaxLaunches
  /\ Settled
  /\ launches' = launches + 1
  /\ section' = <<>>
  /\ notification' = NoNotification
  /\ isDark' = FALSE /\ notificationsEnabled' = FALSE /\ expoPushToken' = ""
  /\ loader' = [NoLoader EXCEPT !.pc = "darkMode"]
  /\ saves' = {SaveOf(FALSE, FALSE, "")}
  /\ toggle' = NoToggle
  /\ persisted' = storage
  /\ UNCHANGED <<storage, lastSet>>

\* the rejections of the register-token request (line 384) and of the calls
\* before it: [code, response, error, request], error being
\* response.data.error
ToggleErrors ==
  { [code |-> "ECONNABORTED", response |-> FALSE, error |-> NoString, request |-> TRUE],
    [code |-> "ERR_BAD_RESPONSE", response |-> TRUE, error |-> NoString, request |-> TRUE],
    [code |-> "ERR_BAD_REQUEST", response |-> TRUE, error |-> "Token non valido",
     request |-> TRUE],
    [code |-> "ERR_NETWORK", response |-> FALSE, error |-> NoString, request |-> TRUE],
    [code |-> "ERR_UNKNOWN", response |-> FALSE, error |-> NoString, request |-> FALSE] }

\* the answer of the backend that resolves the request
Registered == [code |-> "OK", response |-> TRUE, error |-> NoString, request |-> TRUE]

\* what registerForPushNotificationsAsync throws when a call outside its try
\* block rejects (lines 177, 186, 190)
NativeError == [code |-> "ERR_UNKNOWN", response |-> FALSE, error |-> NoString,
                request |-> FALSE]

\* mutant: the catch block asks for error.request before error.response
toggleErrorMessage_RequestFirst(error) ==
  IF error.code = "ECONNABORTED" THEN "Timeout nella registrazione. Riprova."
  ELSE IF error.request THEN "Nessuna connessione al server"
  ELSE IF error.response
    THEN IF error.error # NoString THEN error.error ELSE "Errore del server"
  ELSE "Errore nell'attivazione delle notifiche"

\* lines 407-414: the message of the catch block of toggleNotifications
toggleErrorMessage(error) ==
  IF error.code = "ECONNABORTED" THEN "Timeout nella registrazione. Riprova."
  ELSE IF error.response
    THEN IF error.error # NoString THEN error.error ELSE "Errore del server"
  ELSE IF error.request THEN "Nessuna connessione al server"
  ELSE "Errore nell'attivazione delle notifiche"

\* the catch block of the enabling branch (lines 399-417) and the render
\* that follows
EnableCatch(error) ==
  /\ CanSave
  /\ expoPushToken' = ""
  /\ notificationsEnabled' = FALSE
  /\ saveEffect(isDark, FALSE, "")
  /\ showNotification(toggleErrorMessage(error), "error")
  /\ toggle' = [toggle EXCEPT !.pc = "idle", !.result = "threw", !.error = error]

\* the switch of line 695 calls toggleNotifications(enabled), with enabled
\* the opposite of its value: up to the first await (lines 348-352, 418-426)
toggleNotifications(enabled) ==
  /\ Loaded
  /\ toggle.pc = "idle"
  /\ enabled # notificationsEnabled
  /\ CanSave
  /\ IF enabled
       THEN /\ toggle' = [pc |-> "registering", token |-> NoString,
                          contacted |-> FALSE, result |-> "none", error |-> NoError]
            /\ UNCHANGED <<notificationsEnabled, expoPushToken, saves>>
     ELSE IF expoPushToken # ""
       THEN /\ toggle' = [pc |-> "unregistering", token |-> expoPushToken,
                          contacted |-> TRUE, result |-> "none", error |-> NoError]
            /\ UNCHANGED <<notificationsEnabled, expoPushToken, saves>>
     ELSE /\ notificationsEnabled' = FALSE
          /\ expoPushToken' = ""
          /\ saveEffect(isDark, FALSE, "")
          /\ toggle' = [pc |-> "removing", token |-> expoPushToken,
                        contacted |-> FALSE, result |-> "none", error |-> NoError]
  /\ UNCHANGED <<isDark, storage, loader, launches, lastSet, section, notification>>
  /\ persisted' = EmptyStorage

\* registerForPushNotificationsAsync returns a token (line 217) or null
\* (lines 199, 210, 214), or throws: lines 352-363 and the catch block
RegisterReturns(returned) ==
  /\ toggle.pc = "registering"
  /\ IF returned = "throws"
       THEN EnableCatch(NativeError)
     ELSE IF returned = NoString
       THEN /\ showNotification("Impossibile ottenere il token delle notifiche", "error")
            /\ toggle' = [toggle EXCEPT !.pc = "idle", !.result = "noToken"]
            /\ UNCHANGED <<notificationsEnabled, expoPushToken, saves>>
     ELSE /\ expoPushToken' = returned
          /\ toggle' = [toggle EXCEPT !.pc = "storing", !.token = returned]
          /\ UNCHANGED <<notificationsEnabled, saves, notification>>
  /\ UNCHANGED <<isDark, storage, loader, launches, lastSet, persisted, section>>

\* the setItem of line 363 was done; the request of line 384 is sent
TokenStored ==
  /\ toggle.pc = "storing"
  /\ storage' = [storage EXCEPT !["expoPushToken"] = toggle.token]
  /\ toggle' = [toggle EXCEPT !.pc = "posting", !.contacted = TRUE]
  /\ UNCHANGED <<isDark, notificationsEnabled, expoPushToken, loader, saves,
                 launches, lastSet, persisted, section, notification>>

\* the register-token request resolved: axios rejects every answer whose
\* status is not 2xx, and every failure to get one
RegisterSucceeded(answer) == answer = Registered

\* the register-token request of line 384 resolves, or is rejected with an
\* error: lines 396-397, or the catch block
PostReturns(answer) ==
  /\ toggle.pc = "posting"
  /\ CanSave
  /\ IF RegisterSucceeded(answer)
       THEN /\ notificationsEnabled' = TRUE
            /\ saveEffect(isDark, TRUE, expoPushToken)
            /\ showNotification("Notifiche attivate! Configura classe o professore.", "info")
            /\ toggle' = [toggle EXCEPT !.pc = "idle",
                            !.result = IF answer = Registered THEN "registered"
                                       ELSE "rejected"]
            /\ lastSet' = [lastSet EXCEPT !.notificationsEnabled = TRUE]
            /\ UNCHANGED expoPushToken
     ELSE /\ EnableCatch(answer)
          /\ UNCHANGED lastSet
  /\ UNCHANGED <<isDark, storage, loader, launches, persisted, section>>

\* unregisterTokenFromBackend returned, whatever the backend answered
\* (lines 250-257): lines 424-426 and the render that follows
UnregisterReturns ==
  /\ toggle.pc = "unregistering"
  /\ CanSave
  /\ notificationsEnabled' = FALSE
  /\ expoPushToken' = ""
  /\ saveEffect(isDark, FALSE, "")
  /\ toggle' = [toggle EXCEPT !.pc = "removing"]
  /\ UNCHANGED <<isDark, storage, loader, launches, lastSet, section, notification>>
  /\ UNCHANGED persisted

\* the removeItem of line 426 was done: line 427
TokenRemoved ==
  /\ toggle.pc = "removing"
  /\ storage' = [storage EXCEPT !["expoPushToken"] = NoString]
  /\ showNotification("Notifiche disattivate", "info")
  /\ toggle' = [toggle EXCEPT !.pc = "idle", !.result = "disabled"]
  /\ lastSet' = [lastSet EXCEPT !.notificationsEnabled = FALSE]
  /\ UNCHANGED persisted
  /\ UNCHANGED <<isDark, notificationsEnabled, expoPushToken, loader, saves,
                 launches, section>>

\* the first launch of a fresh installation: the effects of lines 291 and
\* 301 have started loadSettings and saveSettings
SettingsInit ==
  /\ section = <<>> /\ professor = <<>>
  /\ viewMode = "section" /\ dateFilter = "today"
  /\ events = <<>> /\ loading = FALSE /\ refreshing = FALSE
  /\ notification = NoNotification
  /\ pc = "idle" /\ call = NoCall /\ resData = <<>> /\ resDataAfter = <<>>
  /\ dateFiltered = <<>> /\ selected = <<>> /\ outcome = "none"
  /\ ExtractorIdle
  /\ UiIdle
  /\ SavedIdle
  /\ isDark = FALSE /\ notificationsEnabled = FALSE /\ expoPushToken = ""
  /\ storage = EmptyStorage
  /\ loader = [NoLoader EXCEPT !.pc = "darkMode"]
  /\ saves = {SaveOf(FALSE, FALSE, "")}
  /\ toggle = NoToggle
  /\ launches = 1
  /\ lastSet = DefaultPreferences
  /\ persisted = EmptyStorage

SettingsNext ==
  \/ (\E s \in saves : SaveStep(s)) /\ SettingsOnly
  \/ LoadStep /\ SettingsOnly
  \/ LoadApply /\ SettingsOnly
  \/ (\E value \in BOOLEAN : SetIsDark(value)) /\ SettingsOnly
  \/ (\E text \in TypedSections : SetSection(text)) /\ SettingsOnly
  \/ Relaunch /\ SettingsOnly
  \/ (\E enabled \in BOOLEAN : toggleNotifications(enabled)) /\ SettingsOnly
  \/ (\E returned \in {PushToken, NoString, "throws"} : RegisterReturns(returned))
       /\ SettingsOnly
  \/ TokenStored /\ SettingsOnly
  \/ (\E answer \in {Registered} \cup ToggleErrors : PostReturns(answer))
       /\ SettingsOnly
  \/ UnregisterReturns /\ SettingsOnly
  \/ TokenRemoved /\ SettingsOnly

SettingsSpec == SettingsInit /\ [][SettingsNext]_vars

(***************************************************************************)
(* Properties of the settings and their store.                             *)
(***************************************************************************)
\* the values of the preferences in the state of the application
Preferences ==
  [section |-> section, isDark |-> isDark,
   notificationsEnabled |-> notificationsEnabled]

\* C18: every preference the user last set is restored at the next launch:
\* once a later launch has loaded the settings and no call is under way, the
\* section, the theme and the notification setting in the state are the ones
\* the user last set.
C18_LastSetPreferencesRestored ==
  launches > 1 /\ Settled => Preferences = lastSet

\* a step of the enabling branch of toggleNotifications that ends the wait
\* for registerForPushNotificationsAsync without a token
EndsWithoutToken ==
  toggle.pc = "registering" /\ toggle'.pc = "idle" /\ toggle'.token = NoString

\* a step of toggleNotifications that turns notificationsEnabled on
TurnsOn == toggle' # toggle /\ ~notificationsEnabled /\ notificationsEnabled'

\* notificationsEnabled becomes true only in the step in which the
\* register-token request of a call that obtained a token resolves
OnOnlyAfterTokenAndRegistration ==
  TurnsOn => /\ toggle.pc = "posting"
             /\ toggle.token = PushToken
             /\ toggle'.result = "registered"

\* C20 as stated: notificationsEnabled becomes true only after a token was
\* obtained and the register-token request succeeded, and whenever no token
\* is obtained the call ends with notificationsEnabled and expoPushToken
\* unchanged and the backend not contacted.
C20_NoTokenChangesNothing ==
  [][/\ OnOnlyAfterTokenAndRegistration
     /\ EndsWithoutToken =>
          /\ UNCHANGED <<notificationsEnabled, expoPushToken>>
          /\ ~toggle'.contacted]_vars

\* what holds of a call that obtains no token: the backend is not contacted;
\* when registerForPushNotificationsAsync returned no token,
\* notificationsEnabled and expoPushToken are unchanged; when it threw, the
\* call ends with expoPushToken empty and notificationsEnabled false
C20_ReturnedNoTokenChangesNothing ==
  [][/\ OnOnlyAfterTokenAndRegistration
     /\ EndsWithoutToken =>
          /\ ~toggle'.contacted
          /\ toggle'.result \in {"noToken", "threw"}
          /\ toggle'.result = "noToken" =>
               UNCHANGED <<notificationsEnabled, expoPushToken>>
          /\ toggle'.result = "threw" =>
               expoPushToken' = "" /\ ~notificationsEnabled']_vars

\* a step in which the enabling branch of toggleNotifications, having
\* obtained a token, ends in its catch block
EnableFailsAfterToken ==
  /\ toggle.pc \in {"storing", "posting"} /\ toggle.token = PushToken
  /\ toggle'.pc = "idle" /\ toggle'.result = "threw"

\* the kind of failure an error of the register-token request is: a timeout,
\* else an answer of the server, else no answer to a request that was sent,
\* else something else
FailureKind(error) ==
  IF error.code = "ECONNABORTED" THEN "timeout"
  ELSE IF error.response THEN "server error"
  ELSE IF error.request THEN "no connection"
  ELSE "generic"

\* the messages of each kind (lines 407-413); the server's own text, when
\* its answer carries one, is the message of a server error
MessagesOf(kind, error) ==
  IF kind = "timeout" THEN {"Timeout nella registrazione. Riprova."}
  ELSE IF kind = "server error"
    THEN IF error.error # NoString THEN {error.error} ELSE {"Errore del server"}
  ELSE IF kind = "no connection" THEN {"Nessuna connessione al server"}
  ELSE {"Errore nell'attivazione delle notifiche"}

\* C21: when enabling fails after the token was obtained, the call ends with
\* expoPushToken empty and notificationsEnabled false, and the message shown
\* is the error message of the kind of the failure: timeout, else server
\* error, else no connection, else the generic one.
C21_FailedEnableCleansUp ==
  [][EnableFailsAfterToken =>
       /\ expoPushToken' = "" /\ ~notificationsEnabled'
       /\ notification'.type = "error"
       /\ notification'.message \in
            MessagesOf(FailureKind(toggle'.error), toggle'.error)]_vars

\* the register-token request was answered by the server with an error and
\* no text: the call ended in the catch block with the server-error message
C21_Witness ==
  /\ toggle.pc = "idle" /\ toggle.result = "threw" /\ toggle.contacted
  /\ toggle.error.response /\ toggle.error.request
  /\ notification.message = "Errore del server"
  /\ expoPushToken = "" /\ ~notificationsEnabled

(***************************************************************************)
(* Properties of the fetches of the running application.                   *)
(***************************************************************************)
\* the arrays the call with the locals r stores when it succeeds
ResultsOf(r) ==
  UNION {PipelineOf[r, data].sorted : data \in BackendAnswers}

\* C22: once every fetch has completed, the events displayed are the result
\* of the fetch issued last, when that fetch succeeded, whatever the order
\* in which the responses arrived.
C22_LatestFetchIsDisplayed ==
  requests = <<>> /\ lastFetch.outcome = "stored" =>
    events \in ResultsOf(lastFetch.locals)

\* the key was in the store when this launch began, and the user has not
\* changed a stored setting since
Persisted(key) == launches > 1 /\ persisted[key] # NoString

\* C23: whatever the interleaving of the reads of loadSettings and the
\* writes of the mount-time saveSettings, once the calls of a launch are
\* over the theme and the notification flag the previous session persisted
\* are the ones in the state and in the store.
C23_PersistedSurviveLaunch ==
  Settled =>
    /\ Persisted("darkMode") =>
         /\ storage["darkMode"] = persisted["darkMode"]
         /\ isDark = JSONparse(persisted["darkMode"])
    /\ Persisted("notificationsEnabled") =>
         /\ storage["notificationsEnabled"] = persisted["notificationsEnabled"]
         /\ notificationsEnabled = JSONparse(persisted["notificationsEnabled"])

\* C24: whenever notifications are off and no loadSettings, saveSettings or
\* toggleNotifications call is pending, no push token is held: expoPushToken
\* is empty in the state and the key expoPushToken is absent from the store.
C24_OffHoldsNoToken ==
  ~notificationsEnabled /\ Settled =>
    /\ expoPushToken = ""
    /\ storage["expoPushToken"] = NoString

\* ---------------------------------------------------------------------
\* The same application with the scheduling the code relies on: axios.get
\* is given timeout: 30000 (line 449), so the promise of every request
\* settles and some waiting call resumes whenever one is waiting.
\* ---------------------------------------------------------------------
Completes ==
  /\ \/ \E i \in 1..MaxInFlight, data \in BackendAnswers : RequestResolves(i, data)
     \/ \E i \in 1..MaxInFlight, err \in BackendErrors : RequestFails(i, err)
  /\ UiOnly

UiLiveSpec == UiInit /\ [][UiNext]_vars /\ WF_vars(Completes)

\* C25: a call of fetchEvents that got past the blank-query guard resets
\* loading and refreshing in the end, however it ends: neither flag stays
\* true for ever (each is false again and again), and with no call waiting
\* for its response both flags are false.
C25_FlagsAreReset ==
  /\ [](requests = <<>> => ~loading /\ ~refreshing)
  /\ []<>~loading
  /\ []<>~refreshing

\* a pulled refresh ended in the catch block and left both flags false
C25_Witness ==
  /\ lastFetch.outcome \in {"failed", "raised"}
  /\ requests = <<>>
  /\ ~loading /\ ~refreshing

\* the i-th waiting call ends in its catch block: the request was rejected,
\* or the filter of lines 450-457 raised on the response
FailedCompletion(i) ==
  \/ \E err \in BackendErrors : RequestFails(i, err)
  \/ \E data \in BackendAnswers :
       PipelineOf[requests[i], data].raised /\ RequestResolves(i, data)

\* the i-th waiting call ends at line 465
StoredCompletion(i) ==
  \E data \in BackendAnswers :
    ~PipelineOf[requests[i], data].raised /\ RequestResolves(i, data)

\* the messages of the catch block (lines 472-478)
FetchErrorMessages ==
  {errorMessage(err) : err \in AxiosErrors} \cup {"Impossibile caricare le variazioni."}

AllWhiteSpace(text) == \A i \in DOMAIN text : text[i] \in WhiteSpace

\* the view mode asks for a section or a professor and the text of that
\* input is blank
BlankQuery ==
  \/ viewMode = "section" /\ AllWhiteSpace(section)
  \/ viewMode = "professor" /\ AllWhiteSpace(professor)

\* C27: fetchEvents called in section mode with a blank section, or in
\* professor mode with a blank professor, returns before line 442: no
\* request is issued, events, loading and refreshing are left as they were
\* and the one thing shown is an info message.
C27_BlankQueryFetchesNothing ==
  [][pc = "idle" /\ BlankQuery =>
       /\ pc' = "done" /\ outcome' = "blank"
       /\ call' = NoCall
       /\ UNCHANGED <<events, loading, refreshing>>
       /\ notification'.type = "info"
       /\ notification'.message = IF viewMode = "section"
                                    THEN "Inserisci una classe"
                                    ELSE "Inserisci un professore"]_vars

\* the call returned at its guard on a text of white space
C27_Witness ==
  /\ pc = "done" /\ outcome = "blank"
  /\ \/ viewMode = "section" /\ section # <<>>
     \/ viewMode = "professor" /\ professor # <<>>
  /\ BlankQuery

\* ---------------------------------------------------------------------
\* The saved lists of the settings panel (src/App.tsx:140-141, 487-496,
\* 770-803): the user edits the two inputs, saves the current text and
\* removes saved entries.
\* ---------------------------------------------------------------------
\* " 3B"
Q_3B ==
  <<" ", "3", "B">>
\* "4c"
Q_4C ==
  <<"4", "c">>
\* "5A"
Q_5A_UPPER ==
  <<"5", "A">>
\* "Bianchi "
Q_BIANCHI ==
  <<"B", "i", "a", "n", "c", "h", "i", " ">>
\* "ROSSI"
Q_ROSSI_UPPER ==
  <<"R", "O", "S", "S", "I">>

\* the texts the inputs can hold
SectionTexts == {<<>>, Q_BLANK, Q_5A, Q_5A_UPPER, Q_3B, Q_4C}
ProfessorTexts == {<<>>, Q_BLANK, Q_ROSSI, Q_ROSSI_UPPER, Q_BIANCHI}

\* mutant: the entry is never found
arrayIncludes_Never(list, entry) == FALSE

\* Array.prototype.includes on an array of strings (lines 489, 494)
arrayIncludes(list, entry) == \E i \in DOMAIN list : list[i] = entry

\* list.filter((s) => s !== entry) (lines 491, 496)
arrayWithout(list, entry) == SelectSeq(list, LAMBDA s : s # entry)

SavedOnly ==
  UNCHANGED <<viewMode, dateFilter, events, loading, refreshing, notification,
              pc, call, resData, resDataAfter, dateFiltered, selected, outcome,
              extractVars, uiVars, settingsVars>>

\* onChangeText of the inputs (lines 570, 583)
EditSection(text) ==
  /\ section' = text
  /\ UNCHANGED <<professor, savedVars>>
EditProfessor(text) ==
  /\ professor' = text
  /\ UNCHANGED <<section, savedVars>>

\* addSection (lines 487-490)
addSection ==
  LET trimmedSection == toUpperCase(trim(section))
  IN /\ savedSections' =
          IF trimmedSection # <<>> /\ ~arrayIncludes(savedSections, trimmedSection)
            THEN Append(savedSections, trimmedSection)
            ELSE savedSections
     /\ UNCHANGED <<section, professor, savedProfessors>>

\* removeSection (line 491), called by the button of a saved entry (line 770)
removeSection(sectionToRemove) ==
  /\ savedSections' = arrayWithout(savedSections, sectionToRemove)
  /\ UNCHANGED <<section, professor, savedProfessors>>

\* addProfessor (lines 492-495)
addProfessor ==
  LET trimmedProfessor == toUpperCase(trim(professor))
  IN /\ savedProfessors' =
          IF trimmedProfessor # <<>> /\ ~arrayIncludes(savedProfessors, trimmedProfessor)
            THEN Append(savedProfessors, trimmedProfessor)
            ELSE savedProfessors
     /\ UNCHANGED <<section, professor, savedSections>>

\* removeProfessor (line 496), called by the button of a saved entry (line 797)
removeProfessor(professorToRemove) ==
  /\ savedProfessors' = arrayWithout(savedProfessors, professorToRemove)
  /\ UNCHANGED <<section, professor, savedSections>>

SavedInit == AppStart /\ ExtractorIdle /\ UiIdle /\ SettingsIdle /\ SavedIdle

SavedNext ==
  \/ (\E text \in SectionTexts : EditSection(text)) /\ SavedOnly
  \/ (\E text \in ProfessorTexts : EditProfessor(text)) /\ SavedOnly
  \/ addSection /\ SavedOnly
  \/ addProfessor /\ SavedOnly
  \/ (\E s \in Range(savedSections) : removeSection(s)) /\ SavedOnly
  \/ (\E p \in Range(savedProfessors) : removeProfessor(p)) /\ SavedOnly

SavedSpec == SavedInit /\ [][SavedNext]_vars

\* no entry occurs twice
NoDuplicate(list) == \A i, j \in DOMAIN list : list[i] = list[j] => i = j

\* the entry is not empty, has no white space at its ends and no lower-case
\* letter
Normalised(entry) ==
  /\ entry # <<>>
  /\ entry[1] \notin WhiteSpace /\ entry[Len(entry)] \notin WhiteSpace
  /\ \A i \in DOMAIN entry : entry[i] \notin LowerLetters

WellFormed(list) == NoDuplicate(list) /\ \A i \in DOMAIN list : Normalised(list[i])

\* where the entry is in a list that holds it once
IndexIn(list, entry) == CHOOSE i \in DOMAIN list : list[i] = entry

\* adding to old gave new: nothing when the text is blank or its trimmed
\* upper-case form is there already, and else that form at the end
AddedTo(old, new, text) ==
  IF toUpperCase(trim(text)) = <<>> \/ toUpperCase(trim(text)) \in Range(old)
    THEN new = old
    ELSE new = Append(old, toUpperCase(trim(text)))

\* removing entry from old gave new: the entry is gone, the others are all
\* there and in the order they had
RemovedFrom(old, new, entry) ==
  /\ Range(new) = Range(old) \ {entry}
  /\ Len(new) = Len(old) - 1
  /\ \A i, j \in DOMAIN new :
       i < j => IndexIn(old, new[i]) < IndexIn(old, new[j])

\* C28: from empty lists, whatever the user adds and removes, the saved
\* sections and the saved professors hold no duplicate and no empty entry
\* and every entry is a trimmed upper-case text; an add appends the trimmed
\* upper-case form of the input, or changes nothing when that form is blank
\* or already saved; a remove takes that entry out and keeps the others in
\* their order.
C28_SavedListsStayWellFormed ==
  /\ [](WellFormed(savedSections) /\ WellFormed(savedProfessors))
  /\ [][/\ addSection => AddedTo(savedSections, savedSections', section)
        /\ addProfessor => AddedTo(savedProfessors, savedProfessors', professor)
        /\ \A s \in Range(savedSections) :
             removeSection(s) => RemovedFrom(savedSections, savedSections', s)
        /\ \A p \in Range(savedProfessors) :
             removeProfessor(p) => RemovedFrom(savedProfessors, savedProfessors', p)]_vars

\* three sections and two professors are saved and the input holds a text
\* whose trimmed upper-case form is saved already
C28_Witness ==
  /\ Len(savedSections) = 3 /\ Len(savedProfessors) = 2
  /\ section \notin Range(savedSections)
  /\ toUpperCase(trim(section)) \in Range(savedSections)

====
